---- MODULE Spec2Model ----
(***************************************************************************)
(* Record-store access layer of the member web application:                *)
(*   - credential resolver   (config/airtableConfig.ts)                    *)
(*   - record client         (lib/airtable.ts, and its identifier-keyed    *)
(*                            twin, unnamed/part_000)                      *)
(*   - schema resolver       (lib/airtableSchema.ts)                       *)
(* Each asynchronous call is a process of Procs; one action is one         *)
(* uninterrupted run of JavaScript between two awaits on the network.      *)
(***************************************************************************)
EXTENDS Integers, Sequences, FiniteSets, TLC

(***************************************************************************)
(* Bounds of the model                                                     *)
(***************************************************************************)
\* requests one listAllRecords run may issue before the store must stop
\* handing out continuation tokens
MaxPages == 3
\* records in one page response
MaxPageLen == 2
\* identifiers passed to listRecordsByIds
MaxIds == 2
\* minutes the clock may advance
MaxTicks == 7
\* elements in an array handed to a field-value helper
MaxEntries == 2
\* changes of the route's id while one ProgramDetail is on screen
MaxNav == 1
\* field keys passed to resolveFieldIds
MaxKeys == 2

Procs == {1, 2}

(***************************************************************************)
(* JavaScript values                                                       *)
(***************************************************************************)
Undefined == [t |-> "undefined"]
Null == [t |-> "null"]
Num(n) == [t |-> "number", n |-> n]
\* a string is the sequence of its characters
Str(s) == [t |-> "string", s |-> s]
Arr(a) == [t |-> "array", a |-> a]
Bool(b) == [t |-> "boolean", b |-> b]
\* a plain object: m maps its own keys to their values
Obj(m) == [t |-> "object", m |-> m]

\* o[k]
Get(o, k) == IF o.t = "object" /\ k \in DOMAIN o.m THEN o.m[k] ELSE Undefined

\* ToBoolean: if (v), !v, v || w, v && w
Truthy(v) ==
  CASE v.t = "undefined" -> FALSE
    [] v.t = "null" -> FALSE
    [] v.t = "number" -> v.n # 0
    [] v.t = "string" -> v.s # <<>>
    [] v.t = "array" -> TRUE
    [] v.t = "boolean" -> v.b
    [] v.t = "object" -> TRUE

RECURSIVE JoinSeqs(_, _)
\* Array.prototype.join on an array of strings
JoinSeqs(a, sep) ==
  IF a = <<>> THEN <<>>
  ELSE IF Len(a) = 1 THEN a[1]
  ELSE a[1] \o sep \o JoinSeqs(Tail(a), sep)

\* String(v)
JsString(v) ==
  CASE v.t = "string" -> v.s
    [] v.t = "array" -> JoinSeqs(v.a, <<",">>)
    [] v.t = "undefined" -> <<"u", "n", "d", "e", "f", "i", "n", "e", "d">>
    [] v.t = "null" -> <<"n", "u", "l", "l">>
    [] v.t = "number" -> <<v.n>>
    [] v.t = "boolean" -> IF v.b THEN <<"t", "r", "u", "e">> ELSE <<"f", "a", "l", "s", "e">>
    [] v.t = "object" -> <<"[object Object]">>

RECURSIVE TrimStart(_)
TrimStart(s) == IF s # <<>> /\ s[1] = " " THEN TrimStart(Tail(s)) ELSE s

RECURSIVE TrimEnd(_)
TrimEnd(s) ==
  IF s # <<>> /\ s[Len(s)] = " " THEN TrimEnd(SubSeq(s, 1, Len(s) - 1)) ELSE s

\* String.prototype.trim
Trim(s) == TrimEnd(TrimStart(s))

(***************************************************************************)
(* State                                                                   *)
(***************************************************************************)
VARIABLES
  storage,        \* localStorage: "ok", "denied" (every access throws),
                  \* "full" (setItem throws)
  lsPat,          \* localStorage item AIRTABLE_PAT: Null or a string
  winPat,         \* window.__AIRTABLE_PAT__
  now,            \* Date.now(), in ms
  serverMeta,     \* what the metadata endpoint answers at present
  cache,          \* localStorage item AIRTABLE_META_CACHE_v1
  metaCallTimes,  \* history: Date.now() at the issue of the last two metadata
                  \* calls that were answered with a payload
  cl,             \* the calls in progress, one per process
  page            \* the page on screen: its React state and its loader

vars == <<storage, lsPat, winPat, now, serverMeta, cache, metaCallTimes, cl, page>>

envVars == <<storage, lsPat, winPat, now, serverMeta>>

(***************************************************************************)
(* Credential resolver                                                     *)
(***************************************************************************)
DEV_FALLBACK_PAT == Str(<<"p", "a", "t">>)

\* the override taken without looking past its spaces
LsPatUsableUntrimmed(ls) == ls.t = "string" /\ ls.s # <<>>

\* ls && typeof ls === 'string' && ls.trim()
LsPatUsable(ls) == ls.t = "string" /\ Trim(ls.s) # <<>>

\* the window value is looked at before the override
GetAirtableTokenWindowFirst(st, ls, win) ==
  IF Truthy(win) THEN Str(JsString(win))
  ELSE IF st # "denied" /\ LsPatUsable(ls) THEN Str(Trim(ls.s))
  ELSE DEV_FALLBACK_PAT

GetAirtableToken(st, ls, win) ==
  IF st # "denied" /\ LsPatUsable(ls) THEN Str(Trim(ls.s))
  ELSE IF Truthy(win) THEN Str(JsString(win))
  ELSE IF Truthy(DEV_FALLBACK_PAT) THEN DEV_FALLBACK_PAT
  ELSE Null

Token == GetAirtableToken(storage, lsPat, winPat)

(***************************************************************************)
(* HTTP: requests as the client builds them, responses as fetch gives them *)
(***************************************************************************)
NoRequest ==
  [url |-> "none", byId |-> FALSE, recordId |-> Undefined,
   pageSize |-> Undefined, offset |-> Undefined, filterByFormula |-> Undefined,
   view |-> Undefined, sort |-> Undefined, fields |-> Undefined,
   auth |-> Undefined]

NoOpts ==
  [pageSize |-> Undefined, offset |-> Undefined, maxRecords |-> Undefined,
   filterByFormula |-> Undefined, view |-> Undefined, sort |-> Undefined,
   fields |-> Undefined, recordId |-> Undefined, recordIds |-> Arr(<<>>),
   tableName |-> Undefined, fieldName |-> Undefined]

NoResult == [t |-> "none"]
Ok(v) == [t |-> "ok", v |-> v]
Err(kind, msg) == [t |-> "err", kind |-> kind, msg |-> msg]

\* the two clients: "name" is lib/airtable.ts, "id" is the ID-first client
Variants == {"name", "id"}

\* if (v) params[k] = String(v)
Param(v) == IF Truthy(v) THEN v ELSE Undefined

\* opts.fields?.length, opts.sort && opts.sort.length
NonEmptyArr(v) == IF v.t = "array" /\ v.a # <<>> THEN v ELSE Undefined

\* the identifier-keyed client leaves the filter out
ListRecordsRequestIdDropsFilter(variant, o) ==
  [NoRequest EXCEPT
     !.url = "list",
     !.byId = (variant = "id"),
     !.pageSize = Param(o.pageSize),
     !.offset = Param(o.offset),
     !.filterByFormula = IF variant = "id" THEN Undefined ELSE Param(o.filterByFormula),
     !.view = Param(o.view),
     !.sort = NonEmptyArr(o.sort),
     !.fields = NonEmptyArr(o.fields)]

\* listRecords up to its call of airtableFetch: the URL it builds
ListRecordsRequest(variant, o) ==
  [NoRequest EXCEPT
     !.url = "list",
     !.byId = (variant = "id"),
     !.pageSize = Param(o.pageSize),
     !.offset = Param(o.offset),
     !.filterByFormula = Param(o.filterByFormula),
     !.view = Param(o.view),
     !.sort = NonEmptyArr(o.sort),
     !.fields = NonEmptyArr(o.fields)]

\* getRecord up to its call of airtableFetch
GetRecordRequest(variant, o) ==
  [NoRequest EXCEPT
     !.url = "record",
     !.byId = (variant = "id"),
     !.recordId = o.recordId,
     !.fields = NonEmptyArr(o.fields)]

AuthMissingMessage(variant) ==
  IF variant = "name" THEN <<"Airtable API key not configured">>
  ELSE <<"Airtable PAT not found. Please set it with localStorage.setItem(\"AIRTABLE_PAT\", \"your_pat\").">>

\* airtableFetch from its first line to `await fetch(...)`: c is the call,
\* tok what getAirtableToken() returns now
AirtableFetchStartNoGuard(c, req, tok) ==
  [c EXCEPT !.tokenReads = @ + 1,
            !.pc = "await",
            !.reqLog = Append(@, [req EXCEPT !.auth = tok])]

AirtableFetchStart(c, req, tok) ==
  IF ~Truthy(tok)
  THEN [c EXCEPT !.tokenReads = @ + 1,
                 !.pc = "done",
                 !.result = Err("auth", AuthMissingMessage(c.variant))]
  ELSE [c EXCEPT !.tokenReads = @ + 1,
                 !.pc = "await",
                 !.reqLog = Append(@, [req EXCEPT !.auth = tok])]

\* res.text().catch(() => '')
ResponseText(resp) == IF resp.bodyOk THEN resp.body ELSE ""

ErrorDetailStatusText(resp) == resp.statusText

\* text || res.statusText
ErrorDetail(resp) == IF ResponseText(resp) # "" THEN ResponseText(resp) ELSE resp.statusText

\* airtableFetch from the settling of fetch to its own settling
AirtableFetchOutcome(resp) ==
  CASE resp.kind = "neterr" -> Err("network", <<"fetch failed">>)
    [] resp.kind = "http" ->
         Err("http", <<"Airtable error ", resp.status, ": ", ErrorDetail(resp)>>)
    [] resp.kind = "badjson" -> Err("json", <<"SyntaxError">>)
    [] resp.kind = "ok" -> Ok(resp.payload)

(***************************************************************************)
(* The store's answers                                                     *)
(***************************************************************************)
NoResponse ==
  [kind |-> "none", status |-> 0, statusText |-> "", bodyOk |-> TRUE,
   body |-> "", payload |-> Undefined]

\* a fetch that rejects: no response at all
NetworkErrors == {[NoResponse EXCEPT !.kind = "neterr"]}

\* a 2xx response whose body res.json() cannot parse
BadJsonResponses == {[NoResponse EXCEPT !.kind = "badjson", !.status = 200]}

\* non-success responses: res.ok is false
HttpErrors ==
  {[NoResponse EXCEPT !.kind = "http", !.status = st, !.statusText = tx,
                      !.bodyOk = b[1], !.body = b[2]] :
     st \in {404, 500}, tx \in {"", "Server Error"},
     b \in {<<FALSE, "">>, <<TRUE, "">>, <<TRUE, "boom">>}}

Failures == NetworkErrors \cup BadJsonResponses \cup HttpErrors

\* records base+1 .. base+n, in the store's order
RecordsFrom(base, n) == [i \in 1..n |-> base + i]

\* the continuation token the store hands out with its k-th page
Tok(k) == Str(<<"itr", k>>)

RECURSIVE CountRecords(_)
\* records served by the responses in a log
CountRecords(log) ==
  IF log = <<>> THEN 0
  ELSE (IF log[1].kind = "ok" THEN Len(log[1].payload.records) ELSE 0)
       + CountRecords(Tail(log))

\* 2xx answers of the list endpoint to the next request of call c: any page
\* of up to MaxPageLen records, with or without a continuation token
ListPages(c) ==
  {[NoResponse EXCEPT
      !.kind = "ok", !.status = 200,
      !.payload = [records |-> RecordsFrom(CountRecords(c.respLog), n),
                   offset |-> IF more THEN Tok(Len(c.reqLog)) ELSE Undefined]] :
     n \in 0..MaxPageLen, more \in BOOLEAN}

\* 2xx answer of the single-record endpoint
RecordResponses(c) ==
  {[NoResponse EXCEPT !.kind = "ok", !.status = 200,
                      !.payload = [id |-> c.opts.recordId]]}

(***************************************************************************)
(* Record client                                                           *)
(***************************************************************************)
IdleCall ==
  [pc |-> "idle", op |-> "none", variant |-> "name", opts |-> NoOpts,
   pageSize |-> 0, offset |-> Undefined, out |-> <<>>,
   reqLog |-> <<>>, respLog |-> <<>>, result |-> NoResult, tokenReads |-> 0,
   meta |-> Undefined, startedAt |-> 0, cacheAtStart |-> Undefined]

Begin(op, variant, o) == [IdleCall EXCEPT !.op = op, !.variant = variant, !.opts = o]

Min(a, b) == IF a < b THEN a ELSE b
Max(a, b) == IF a > b THEN a ELSE b

Slice0Whole(s, e) == s

\* Array.prototype.slice(0, e)
Slice0(s, e) ==
  IF e >= 0 THEN SubSeq(s, 1, Min(e, Len(s)))
  ELSE SubSeq(s, 1, Max(Len(s) + e, 0))

\* the literal 100 of listAllRecords
PageSizeLimit == 100

\* half the page the store allows
ByIdsPageSizeHalved == PageSizeLimit \div 2

\* the literal 100 of listRecordsByIds
ByIdsPageSize == 100

\* the lower limit is left out
ClampPageSizeNoFloor(v) ==
  Min(IF Truthy(v) THEN v.n ELSE PageSizeLimit, PageSizeLimit)

\* Math.min(Math.max(opts.pageSize || 100, 1), 100)
ClampPageSize(v) ==
  Min(Max(IF Truthy(v) THEN v.n ELSE PageSizeLimit, 1), PageSizeLimit)

ListAllPageRequestNoOffset(c) ==
  ListRecordsRequest(c.variant,
    [c.opts EXCEPT !.pageSize = Num(c.pageSize), !.offset = Undefined])

\* the listRecords call in the loop body of listAllRecords
ListAllPageRequest(c) ==
  ListRecordsRequest(c.variant,
    [c.opts EXCEPT !.pageSize = Num(c.pageSize), !.offset = c.offset])

\* the second page is asked for along with the first
ListAllStartTwoInFlight(variant, o, tok) ==
  LET c == [Begin("listAllRecords", variant, o) EXCEPT
              !.pageSize = ClampPageSize(o.pageSize)]
      c1 == AirtableFetchStart(c, ListAllPageRequest(c), tok)
  IN IF c1.pc = "await" THEN AirtableFetchStart(c1, ListAllPageRequest(c1), tok)
     ELSE c1

\* listAllRecords from its first line to the first await
ListAllStart(variant, o, tok) ==
  LET c == [Begin("listAllRecords", variant, o) EXCEPT
              !.pageSize = ClampPageSize(o.pageSize)]
  IN AirtableFetchStart(c, ListAllPageRequest(c), tok)

Finish(c, resp, result) ==
  [c EXCEPT !.pc = "done", !.respLog = Append(@, resp), !.result = result]

\* a failed page is asked for again
ListAllStepRetry(c, resp, tok) ==
  LET res == AirtableFetchOutcome(resp) IN
  IF res.t = "err"
  THEN AirtableFetchStart([c EXCEPT !.respLog = Append(@, resp)],
                          ListAllPageRequest(c), tok)
  ELSE
    LET out == c.out \o res.v.records
        c1 == [c EXCEPT !.out = out, !.respLog = Append(@, resp)]
    IN IF ~Truthy(res.v.offset)
       THEN [c1 EXCEPT !.pc = "done", !.result = Ok(out)]
       ELSE LET c2 == [c1 EXCEPT !.offset = res.v.offset]
            IN AirtableFetchStart(c2, ListAllPageRequest(c2), tok)

\* the loop gives up after two pages
ListAllStepCapped(c, resp, tok) ==
  LET res == AirtableFetchOutcome(resp) IN
  IF res.t = "err" THEN Finish(c, resp, res)
  ELSE
    LET out == c.out \o res.v.records
        c1 == [c EXCEPT !.out = out, !.respLog = Append(@, resp)]
    IN IF Truthy(c.opts.maxRecords) /\ Len(out) >= c.opts.maxRecords.n
       THEN [c1 EXCEPT !.pc = "done",
                       !.result = Ok(Slice0(out, c.opts.maxRecords.n))]
       ELSE IF ~Truthy(res.v.offset) \/ Len(c1.respLog) >= 2
       THEN [c1 EXCEPT !.pc = "done", !.result = Ok(out)]
       ELSE LET c2 == [c1 EXCEPT !.offset = res.v.offset]
            IN AirtableFetchStart(c2, ListAllPageRequest(c2), tok)

\* listAllRecords from the settling of one page to the next await or the end
ListAllStep(c, resp, tok) ==
  LET res == AirtableFetchOutcome(resp) IN
  IF res.t = "err" THEN Finish(c, resp, res)
  ELSE
    LET out == c.out \o res.v.records
        c1 == [c EXCEPT !.out = out, !.respLog = Append(@, resp)]
    IN IF Truthy(c.opts.maxRecords) /\ Len(out) >= c.opts.maxRecords.n
       THEN [c1 EXCEPT !.pc = "done",
                       !.result = Ok(Slice0(out, c.opts.maxRecords.n))]
       ELSE IF ~Truthy(res.v.offset)
       THEN [c1 EXCEPT !.pc = "done", !.result = Ok(out)]
       ELSE LET c2 == [c1 EXCEPT !.offset = res.v.offset]
            IN AirtableFetchStart(c2, ListAllPageRequest(c2), tok)

\* `RECORD_ID()='${id}'`, as the sequence of its lexical pieces
RecordIdPredicate(id) == <<"RECORD_ID()=", "'">> \o id \o <<"'">>

RECURSIVE MapPredicatesUnique(_)
MapPredicatesUnique(ids) ==
  IF ids = <<>> THEN <<>>
  ELSE IF Len(ids) > 1 /\ ids[1] = ids[2] THEN MapPredicatesUnique(Tail(ids))
  ELSE <<RecordIdPredicate(ids[1])>> \o MapPredicatesUnique(Tail(ids))

RECURSIVE MapPredicates(_)
\* recordIds.map((id) => `RECORD_ID()='${id}'`)
MapPredicates(ids) ==
  IF ids = <<>> THEN <<>>
  ELSE <<RecordIdPredicate(ids[1])>> \o MapPredicates(Tail(ids))

\* `OR(${recordIds.map(...).join(',')})`
BuildIdsFormula(ids) == <<"OR(">> \o JoinSeqs(MapPredicates(ids), <<",">>) \o <<")">>

ListRecordsByIdsStartNoShortcut(variant, o, tok) ==
  AirtableFetchStart(Begin("listRecordsByIds", variant, o),
    ListRecordsRequest(variant,
      [NoOpts EXCEPT !.filterByFormula = Str(<<"OR(", ")">>),
                     !.fields = o.fields,
                     !.pageSize = Num(100)]),
    tok)

\* listRecordsByIds: the whole function when the list is empty, else up to
\* the await
ListRecordsByIdsStart(variant, o, tok) ==
  LET c == Begin("listRecordsByIds", variant, o) IN
  IF o.recordIds.a = <<>>
  THEN [c EXCEPT !.pc = "done", !.result = Ok([records |-> <<>>])]
  ELSE AirtableFetchStart(c,
         ListRecordsRequest(variant,
           [NoOpts EXCEPT !.filterByFormula = Str(BuildIdsFormula(o.recordIds.a)),
                          !.fields = o.fields,
                          !.pageSize = Num(ByIdsPageSize)]),
         tok)

(***************************************************************************)
(* What callers pass                                                       *)
(***************************************************************************)
\* filter, view, sort and field selection, as the pages pass them
SelectionPool ==
  {NoOpts,
   [NoOpts EXCEPT !.filterByFormula = Str(<<"{Active}">>),
                  !.view = Str(<<"Grid">>),
                  !.sort = Arr(<<"Sort Order">>),
                  !.fields = Arr(<<"Name">>)]}

PageSizePool == {Undefined, Num(0), Num(-5), Num(2), Num(250)}

MaxRecordsPool == {Undefined, Num(0), Num(1), Num(3)}

ListRecordsOpts ==
  {[s EXCEPT !.pageSize = ps, !.offset = off] :
     s \in SelectionPool, ps \in {Undefined, Num(2)}, off \in {Undefined, Tok(1)}}

ListAllOpts ==
  {[s EXCEPT !.pageSize = ps, !.maxRecords = mr] :
     s \in SelectionPool, ps \in PageSizePool, mr \in MaxRecordsPool}

GetRecordOpts ==
  {[NoOpts EXCEPT !.recordId = Str(<<"rec", n>>), !.fields = f] :
     n \in {1, 2}, f \in {Undefined, Arr(<<"Name">>)}}

\* record identifiers: two plain ones, one with a quote in it, one that
\* closes the literal and goes on with a predicate of its own
IdPool ==
  {<<"rec", "1">>, <<"rec", "2">>, <<"o", "'", "k">>,
   <<"a", "'", ",", "RECORD_ID()=", "'", "b">>}

RECURSIVE SeqsUpTo(_, _)
\* the sequences over S of length at most n
SeqsUpTo(S, n) ==
  IF n = 0 THEN {<<>>}
  ELSE LET shorter == SeqsUpTo(S, n - 1)
       IN shorter \cup {Append(q, x) : q \in {r \in shorter : Len(r) = n - 1}, x \in S}

ByIdsOpts ==
  {[NoOpts EXCEPT !.recordIds = Arr(ids), !.fields = f] :
     ids \in SeqsUpTo(IdPool, MaxIds), f \in {Undefined}}

(***************************************************************************)
(* Actions of the record client                                            *)
(***************************************************************************)
Set(p, c) == cl' = [cl EXCEPT ![p] = c]

CallListRecords(p) ==
  /\ cl[p].pc = "idle"
  /\ \E variant \in Variants, o \in ListRecordsOpts :
       Set(p, AirtableFetchStart(Begin("listRecords", variant, o),
                                 ListRecordsRequest(variant, o), Token))
  /\ UNCHANGED <<envVars, cache, metaCallTimes, page>>

CallGetRecord(p) ==
  /\ cl[p].pc = "idle"
  /\ \E variant \in Variants, o \in GetRecordOpts :
       Set(p, AirtableFetchStart(Begin("getRecord", variant, o),
                                 GetRecordRequest(variant, o), Token))
  /\ UNCHANGED <<envVars, cache, metaCallTimes, page>>

CallListAllRecords(p) ==
  /\ cl[p].pc = "idle"
  /\ \E variant \in Variants, o \in ListAllOpts :
       Set(p, ListAllStart(variant, o, Token))
  /\ UNCHANGED <<envVars, cache, metaCallTimes, page>>

CallListRecordsByIds(p) ==
  /\ cl[p].pc = "idle"
  /\ \E variant \in Variants, o \in ByIdsOpts :
       Set(p, ListRecordsByIdsStart(variant, o, Token))
  /\ UNCHANGED <<envVars, cache, metaCallTimes, page>>

ClientOps == {"listRecords", "getRecord", "listAllRecords", "listRecordsByIds"}

\* what the store may answer to the request call c has in flight; a run of
\* listAllRecords gets no token with its MaxPages-th page
Answers(c) ==
  Failures \cup
  (CASE c.op = "getRecord" -> RecordResponses(c)
     [] c.op = "listAllRecords" ->
          {r \in ListPages(c) :
             Len(c.reqLog) >= MaxPages => ~Truthy(r.payload.offset)}
     [] OTHER -> ListPages(c))

\* the request of a record-client call settles
ClientRespond(p) ==
  /\ cl[p].pc = "await"
  /\ cl[p].op \in ClientOps
  /\ \E resp \in Answers(cl[p]) :
       IF cl[p].op = "listAllRecords"
       THEN Set(p, ListAllStep(cl[p], resp, Token))
       ELSE Set(p, Finish(cl[p], resp, AirtableFetchOutcome(resp)))
  /\ UNCHANGED <<envVars, cache, metaCallTimes, page>>

\* the caller has taken the outcome; the process is free for the next call
Return(p) ==
  /\ cl[p].pc = "done"
  /\ Set(p, IdleCall)
  /\ UNCHANGED <<envVars, cache, metaCallTimes, page>>

(***************************************************************************)
(* Schema resolver                                                         *)
(***************************************************************************)
META_CACHE_TTL_MS == 5 * 60 * 1000

\* the clock advances a minute at a time
TickMs == 60 * 1000

\* two answers of the metadata endpoint: the base as it is, and the base
\* after "Programs" was rebuilt and "Resources" dropped
MetaA ==
  [tables |->
     << [id |-> "tblP", name |-> "Programs",
         fields |-> << [id |-> "fldPN", name |-> "Name", type |-> "text"],
                       [id |-> "fldPL", name |-> "Level", type |-> "select"] >>],
        [id |-> "tblR", name |-> "Resources",
         fields |-> << [id |-> "fldRN", name |-> "Name", type |-> "text"] >>] >>]

MetaB ==
  [tables |->
     << [id |-> "tblP2", name |-> "Programs",
         fields |-> << [id |-> "fldPL2", name |-> "Level", type |-> "select"],
                       [id |-> "fldPT2", name |-> "Title", type |-> "text"] >>] >>]

Metas == {MetaA, MetaB}

\* the cache item as stored: JSON.stringify({ at, data })
CacheEntry(at, data) == [t |-> "entry", at |-> at, data |-> data]

\* an item JSON.parse throws on
CorruptEntry == [t |-> "corrupt"]

CacheFreshInclusive(st, item, t) ==
  /\ st # "denied"
  /\ item.t = "entry"
  /\ t - item.at <= META_CACHE_TTL_MS

\* the try block of getMeta returns parsed.data
CacheFresh(st, item, t) ==
  /\ st # "denied"
  /\ item.t = "entry"
  /\ t - item.at < META_CACHE_TTL_MS

MetaAuthMissingMessage ==
  <<"Airtable PAT not found. Set it with localStorage.setItem(\"AIRTABLE_PAT\", \"your_pat\").">>

MetaRequest == [NoRequest EXCEPT !.url = "meta"]

\* fetchMeta from its first line to `await fetch(url, ...)`
FetchMetaStart(c, tok) ==
  IF ~Truthy(tok)
  THEN [c EXCEPT !.tokenReads = @ + 1,
                 !.pc = "done",
                 !.result = Err("auth", MetaAuthMissingMessage)]
  ELSE [c EXCEPT !.tokenReads = @ + 1,
                 !.pc = "await",
                 !.reqLog = Append(@, [MetaRequest EXCEPT !.auth = tok])]

\* the message stops at the status
FetchMetaOutcomeNoBody(resp) ==
  CASE resp.kind = "neterr" -> Err("network", <<"fetch failed">>)
    [] resp.kind = "http" -> Err("http", <<"Airtable Metadata error ", resp.status>>)
    [] resp.kind = "badjson" -> Err("json", <<"SyntaxError">>)
    [] resp.kind = "ok" -> Ok(resp.payload)

\* fetchMeta from the settling of fetch to its own settling
FetchMetaOutcome(resp) ==
  CASE resp.kind = "neterr" -> Err("network", <<"fetch failed">>)
    [] resp.kind = "http" ->
         Err("http", <<"Airtable Metadata error ", resp.status, ": ", ErrorDetail(resp)>>)
    [] resp.kind = "badjson" -> Err("json", <<"SyntaxError">>)
    [] resp.kind = "ok" -> Ok(resp.payload)

RECURSIVE FindFrom(_, _, _)
FindFrom(list, name, i) ==
  IF i > Len(list) THEN 0
  ELSE IF list[i].name = name THEN i
  ELSE FindFrom(list, name, i + 1)

\* list.find((x) => x.name === name): the index of the first match, 0 if none
FindByName(list, name) == FindFrom(list, name, 1)

\* resolveTableIdByName after `await getMeta()`
ResolveTableIdByName(meta, tableName) ==
  LET i == FindByName(meta.tables, tableName) IN
  IF i = 0
  THEN Err("table-not-found", <<"Airtable table not found by name: ", tableName>>)
  ELSE Ok(meta.tables[i].id)

RECURSIVE AllFields(_)
AllFields(tables) ==
  IF tables = <<>> THEN <<>> ELSE tables[1].fields \o AllFields(Tail(tables))

ResolveFieldAnyTable(meta, tableName, fieldName) ==
  LET i == FindByName(meta.tables, tableName) IN
  IF i = 0
  THEN Err("table-not-found", <<"Airtable table not found by name: ", tableName>>)
  ELSE LET all == AllFields(meta.tables)
           j == FindByName(all, fieldName)
       IN IF j = 0
          THEN Err("field-not-found",
                   <<"Airtable field not found: ", tableName, ".", fieldName>>)
          ELSE Ok(all[j].id)

\* resolveFieldIdByNames after `await getMeta()`
ResolveFieldIdByNames(meta, tableName, fieldName) ==
  LET i == FindByName(meta.tables, tableName) IN
  IF i = 0
  THEN Err("table-not-found", <<"Airtable table not found by name: ", tableName>>)
  ELSE LET j == FindByName(meta.tables[i].fields, fieldName) IN
       IF j = 0
       THEN Err("field-not-found",
                <<"Airtable field not found: ", tableName, ".", fieldName>>)
       ELSE Ok(meta.tables[i].fields[j].id)

ResolveOps == {"resolveTableIdByName", "resolveFieldIdByNames"}

\* the resolver's work on the payload getMeta gave it
Lookup(c, meta) ==
  IF c.op = "resolveTableIdByName"
  THEN ResolveTableIdByName(meta, c.opts.tableName)
  ELSE ResolveFieldIdByNames(meta, c.opts.tableName, c.opts.fieldName)

\* what the pages ask the resolver
Queries ==
  {[op |-> "resolveTableIdByName", tableName |-> tn, fieldName |-> ""] :
     tn \in {"Programs", "programs", "Resources", "Members"}}
  \cup
  {[op |-> "resolveFieldIdByNames", tableName |-> q[1], fieldName |-> q[2]] :
     q \in {<<"Programs", "Name">>, <<"Programs", "Level">>,
            <<"Resources", "Level">>, <<"Members", "Name">>,
            <<"Members", "Nope">>}}

\* Date.now() at the last two metadata calls, after one more at time t
NoteCall(times, t) == <<times[2], Num(t)>>

\* resolveTableIdByName / resolveFieldIdByNames from the call to the await
\* on fetch, or to the end when the cache answers or no token is found
CallResolveFrom(p, queries) ==
  /\ cl[p].pc = "idle"
  /\ \E q \in queries :
       LET c == [Begin(q.op, "name",
                       [NoOpts EXCEPT !.tableName = q.tableName,
                                      !.fieldName = q.fieldName])
                   EXCEPT !.startedAt = now, !.cacheAtStart = cache]
       IN IF CacheFresh(storage, cache, now)
          THEN Set(p, [c EXCEPT !.pc = "done", !.meta = cache.data,
                               !.result = Lookup(c, cache.data)])
          ELSE Set(p, FetchMetaStart(c, Token))
  /\ UNCHANGED <<envVars, cache, metaCallTimes, page>>

CallResolve(p) == CallResolveFrom(p, Queries)

MetaAnswers == Failures \cup
  {[NoResponse EXCEPT !.kind = "ok", !.status = 200, !.payload = serverMeta]}

\* the metadata endpoint answering with the schema, or with a 500
ConcurrentAnswers ==
  {[NoResponse EXCEPT !.kind = "ok", !.status = 200, !.payload = serverMeta],
   [NoResponse EXCEPT !.kind = "http", !.status = 500, !.body = "boom"]}

\* an entry already there is not written over
StoreItemKeepExisting(st, old, new) ==
  IF st = "ok" /\ old.t # "entry" THEN new ELSE old

\* localStorage.setItem inside try/catch
StoreItem(st, old, new) == IF st = "ok" THEN new ELSE old

\* a refused write surfaces to the caller
GetMetaReturnWriteThrows(c, st, resp, data) ==
  IF st = "ok" THEN [Finish(c, resp, Lookup(c, data)) EXCEPT !.meta = data]
  ELSE Finish(c, resp, Err("storage", <<"QuotaExceededError">>))

\* getMeta after its write attempt: `return data`, and the resolver's lookup
\* in it, whatever setItem did under storage mode st
GetMetaReturn(c, st, resp, data) ==
  [Finish(c, resp, Lookup(c, data)) EXCEPT !.meta = data]

\* the entry carries the time the resolution began
EntryWrittenAtStart(c, t, data) == CacheEntry(c.startedAt, data)

\* JSON.stringify({ at: Date.now(), data }) in call c, at time t
EntryWritten(c, t, data) == CacheEntry(t, data)

\* the metadata request settles: fetchMeta ends, getMeta stores the payload
\* and the resolver looks the name up
MetaRespondWith(p, answers) ==
  /\ cl[p].pc = "await"
  /\ cl[p].op \in ResolveOps
  /\ \E resp \in answers :
       LET res == FetchMetaOutcome(resp) IN
       IF res.t = "err"
       THEN /\ Set(p, Finish(cl[p], resp, res))
            /\ UNCHANGED <<cache, metaCallTimes>>
       ELSE /\ cache' = StoreItem(storage, cache, EntryWritten(cl[p], now, res.v))
            /\ metaCallTimes' = NoteCall(metaCallTimes, cl[p].startedAt)
            /\ Set(p, GetMetaReturn(cl[p], storage, resp, res.v))
  /\ UNCHANGED <<envVars, page>>

MetaRespond(p) == MetaRespondWith(p, MetaAnswers)

\* TABLE_NAME_MAP, for two table keys
TableNameMap == [programs |-> "Programs", resources |-> "Resources"]

\* FIELD_NAME_MAP[tableKey][key]; undefined for a key the map does not have
FieldNameOf(tableKey, key) ==
  CASE key = "name" -> "Name"
    [] key = "level" -> "Level"
    [] key = "title" /\ tableKey = "programs" -> "Title"
    [] OTHER -> "undefined"

\* the object resolveFieldIds builds: the identifier last assigned to each key
ResultMap(keys, ids) ==
  [k \in {keys[i] : i \in 1..Len(ids)} |->
     ids[CHOOSE i \in 1..Len(ids) :
           keys[i] = k /\ \A j \in 1..Len(ids) : keys[j] = k => j <= i]]

RECURSIVE ResolveFieldIdsFromKeepsPartial(_, _, _, _, _)
\* a key whose field is missing ends the loop and what was resolved is returned
ResolveFieldIdsFromKeepsPartial(c, st, item, t, tok) ==
  LET i == Len(c.out) + 1 IN
  IF i > Len(c.opts.fieldKeys)
  THEN [c EXCEPT !.pc = "done", !.result = Ok(ResultMap(c.opts.fieldKeys, c.out))]
  ELSE IF CacheFresh(st, item, t)
  THEN LET r == ResolveFieldIdByNames(item.data, TableNameMap[c.opts.tableKey],
                                      FieldNameOf(c.opts.tableKey, c.opts.fieldKeys[i]))
       IN IF r.t = "err"
          THEN [c EXCEPT !.pc = "done", !.meta = item.data,
                         !.result = Ok(ResultMap(c.opts.fieldKeys, c.out))]
          ELSE ResolveFieldIdsFromKeepsPartial(
                 [c EXCEPT !.out = Append(@, r.v), !.meta = item.data], st, item, t, tok)
  ELSE FetchMetaStart([c EXCEPT !.startedAt = t], tok)

RECURSIVE ResolveFieldIdsFrom(_, _, _, _, _)
\* the for loop of resolveFieldIds from the key after those resolved (c.out)
\* to the next await on fetch or to the end; item is the cache item at time t
ResolveFieldIdsFrom(c, st, item, t, tok) ==
  LET i == Len(c.out) + 1 IN
  IF i > Len(c.opts.fieldKeys)
  THEN [c EXCEPT !.pc = "done", !.result = Ok(ResultMap(c.opts.fieldKeys, c.out))]
  ELSE IF CacheFresh(st, item, t)
  THEN LET r == ResolveFieldIdByNames(item.data, TableNameMap[c.opts.tableKey],
                                      FieldNameOf(c.opts.tableKey, c.opts.fieldKeys[i]))
       IN IF r.t = "err"
          THEN [c EXCEPT !.pc = "done", !.meta = item.data, !.result = r]
          ELSE ResolveFieldIdsFrom(
                 [c EXCEPT !.out = Append(@, r.v), !.meta = item.data], st, item, t, tok)
  ELSE FetchMetaStart([c EXCEPT !.startedAt = t], tok)

\* the keys the pages ask for together
FieldKeyPool == {"name", "level", "title"}

\* resolveFieldIds(tableKey, fieldKeys) from the call to its first await on
\* fetch, or to its end when the cache answers every key
CallResolveFieldIds(p) ==
  /\ cl[p].pc = "idle"
  /\ \E tk \in DOMAIN TableNameMap, keys \in SeqsUpTo(FieldKeyPool, MaxKeys) :
       LET c == [Begin("resolveFieldIds", "name", [tableKey |-> tk, fieldKeys |-> keys])
                   EXCEPT !.startedAt = now, !.cacheAtStart = cache]
       IN Set(p, ResolveFieldIdsFrom(c, storage, cache, now, Token))
  /\ UNCHANGED <<envVars, cache, metaCallTimes, page>>

\* the metadata request of one key's resolution settles: getMeta stores the
\* payload, the key is looked up in it, and the loop goes on to the next keys
FieldIdsMetaRespond(p) ==
  /\ cl[p].pc = "await"
  /\ cl[p].op = "resolveFieldIds"
  /\ \E resp \in ConcurrentAnswers :
       LET res == FetchMetaOutcome(resp)
           c == [cl[p] EXCEPT !.respLog = Append(@, resp)]
       IN
       IF res.t = "err"
       THEN /\ Set(p, Finish(cl[p], resp, res))
            /\ UNCHANGED <<cache, metaCallTimes>>
       ELSE LET item == StoreItem(storage, cache, EntryWritten(c, now, res.v))
                r == ResolveFieldIdByNames(res.v, TableNameMap[c.opts.tableKey],
                       FieldNameOf(c.opts.tableKey, c.opts.fieldKeys[Len(c.out) + 1]))
            IN /\ cache' = item
               /\ metaCallTimes' = NoteCall(metaCallTimes, c.startedAt)
               /\ IF r.t = "err"
                  THEN Set(p, [c EXCEPT !.pc = "done", !.meta = res.v, !.result = r])
                  ELSE Set(p, ResolveFieldIdsFrom(
                                [c EXCEPT !.out = Append(@, r.v), !.meta = res.v],
                                storage, item, now, Token))
  /\ UNCHANGED <<envVars, page>>

\* a minute passes
Tick ==
  /\ now < MaxTicks * TickMs
  /\ now' = now + TickMs
  /\ UNCHANGED <<storage, lsPat, winPat, serverMeta, cache, metaCallTimes, cl, page>>

\* the base's schema is edited at the store
SchemaEdit ==
  /\ \E m \in Metas \ {serverMeta} : serverMeta' = m
  /\ UNCHANGED <<storage, lsPat, winPat, now, cache, metaCallTimes, cl, page>>

(***************************************************************************)
(* The two clients side by side                                            *)
(***************************************************************************)
\* process 1 calls listAllRecords of lib/airtable.ts, process 2 that of the
\* identifier-keyed client, with the same options
TwinCallListAllRecords ==
  /\ \A p \in Procs : cl[p].pc = "idle"
  /\ \E o \in ListAllOpts :
       cl' = [cl EXCEPT ![1] = ListAllStart("name", o, Token),
                        ![2] = ListAllStart("id", o, Token)]
  /\ UNCHANGED <<envVars, cache, metaCallTimes, page>>

\* the call that is further behind, which the store answers next
TwinAwaiting == IF cl[1].pc = "await" THEN cl[1] ELSE cl[2]

\* the store gives the same answer to the requests the two have in flight
TwinRespond ==
  /\ \E p \in Procs : cl[p].pc = "await"
  /\ \E resp \in Answers(TwinAwaiting) :
       cl' = [p \in Procs |->
                IF cl[p].pc = "await" THEN ListAllStep(cl[p], resp, Token) ELSE cl[p]]
  /\ UNCHANGED <<envVars, cache, metaCallTimes, page>>

TwinReturn ==
  /\ \A p \in Procs : cl[p].pc = "done"
  /\ cl' = [p \in Procs |-> IdleCall]
  /\ UNCHANGED <<envVars, cache, metaCallTimes, page>>

(***************************************************************************)
(* Field-value helpers                                                     *)
(***************************************************************************)
AttachmentKeys == {"id", "url", "filename"}

\* an entry with an id and a url passes
AttachmentOfNoFilename(a) ==
  IF Truthy(a) /\ a.t \in {"object", "array"}
     /\ Truthy(Get(a, "id")) /\ Truthy(Get(a, "url"))
  THEN Obj([k \in AttachmentKeys |-> Get(a, k)])
  ELSE Null

\* the callback of .map in getAttachmentArray
AttachmentOf(a) ==
  IF Truthy(a) /\ a.t \in {"object", "array"}
     /\ Truthy(Get(a, "id")) /\ Truthy(Get(a, "url")) /\ Truthy(Get(a, "filename"))
  THEN Obj([k \in AttachmentKeys |-> Get(a, k)])
  ELSE Null

RECURSIVE MapAttachments(_)
MapAttachments(a) ==
  IF a = <<>> THEN <<>> ELSE <<AttachmentOf(a[1])>> \o MapAttachments(Tail(a))

\* getAttachmentArray(fieldValue)
GetAttachmentArray(v) ==
  IF v.t # "array" THEN <<>> ELSE SelectSeq(MapAttachments(v.a), Truthy)

\* (v) => (typeof v === 'string' ? v.trim() : '')
TrimIfString(v) == IF v.t = "string" THEN Trim(v.s) ELSE <<>>

RECURSIVE MapTrim(_)
MapTrim(a) == IF a = <<>> THEN <<>> ELSE <<TrimIfString(a[1])>> \o MapTrim(Tail(a))

NonEmptyText(s) == s # <<>>

\* the empty parts are joined in with the others
JoinTrimmedKeepEmpty(a) == Trim(JoinSeqs(MapTrim(a), <<" ">>))

\* value.map(...).filter(Boolean).join(' ').trim()
JoinTrimmed(a) == Trim(JoinSeqs(SelectSeq(MapTrim(a), NonEmptyText), <<" ">>))

CandidateKeys == <<"text", "value", "plain_text", "content", "description">>

RECURSIVE FirstCandidate(_, _)
\* the for loop of coerceToText over candidates i, i+1, ...
FirstCandidate(obj, i) ==
  IF i > Len(CandidateKeys) THEN <<>>
  ELSE LET c == Get(obj, CandidateKeys[i]) IN
       IF c.t = "string" /\ Trim(c.s) # <<>> THEN Trim(c.s)
       ELSE IF c.t = "array" /\ JoinTrimmed(c.a) # <<>> THEN JoinTrimmed(c.a)
       ELSE FirstCandidate(obj, i + 1)

\* coerceToText(value)
CoerceToText(v) ==
  IF v.t = "string" THEN Trim(v.s)
  ELSE IF v.t \in {"undefined", "null"} THEN <<>>
  ELSE IF v.t = "array" THEN JoinTrimmed(v.a)
  ELSE IF v.t = "object" THEN FirstCandidate(v, 1)
  ELSE <<>>

\* entries an attachment field may hold
EntryPool ==
  {Obj([id |-> Str(<<"a1">>), url |-> Str(<<"u">>), filename |-> Str(<<"f">>)]),
   Obj([id |-> Str(<<"a3">>), url |-> Str(<<"u">>), filename |-> Str(<<"f">>),
        size |-> Num(10)]),
   Obj([id |-> Str(<<"a2">>)]),
   Obj([id |-> Str(<<"a4">>), url |-> Str(<<"u">>), filename |-> Str(<<>>)]),
   Obj([id |-> Num(7), url |-> Str(<<"u">>), filename |-> Str(<<"f">>)]),
   Null, Str(<<"x">>), Num(3), Arr(<<>>)}

AttachmentInputs ==
  {Arr(a) : a \in SeqsUpTo(EntryPool, MaxEntries)}
  \cup {Undefined, Null, Str(<<"u">>), Num(1),
        Obj([id |-> Str(<<"a1">>), url |-> Str(<<"u">>), filename |-> Str(<<"f">>)])}

\* elements a text field's array may hold
TextPool == {Str(<<>>), Str(<<" ", "a", " ">>), Str(<<"b">>), Num(4), Null}

\* what an object may hold under candidate key k: nothing (0), spaces, a
\* string, an array with a usable element, an array with none
CandidateValue(k, n) ==
  CASE n = 1 -> Str(<<" ">>)
    [] n = 2 -> Str(<<" ", k, " ">>)
    [] n = 3 -> Arr(<<Str(<<>>), Str(<<" ", k>>), Num(5), Str(<<"z">>)>>)
    [] n = 4 -> Arr(<<Str(<<" ">>), Null>>)

KeySet(q) == {q[i] : i \in 1..Len(q)}

\* objects with a title and any choice of candidates
TextObjects ==
  {Obj([k \in {"title"} \cup {c \in KeySet(CandidateKeys) : f[c] # 0} |->
          IF k = "title" THEN Str(<<"t">>) ELSE CandidateValue(k, f[k])]) :
     f \in [KeySet(CandidateKeys) -> 0..4]}

TextInputs ==
  {Arr(a) : a \in SeqsUpTo(TextPool, MaxEntries)}
  \cup TextObjects
  \cup {Str(<<" ", "h", "i", " ">>), Str(<<>>), Str(<<" ">>), Num(42), Bool(TRUE),
        Null, Undefined}

\* getAttachmentArray(v), the whole function, of either client module
CallGetAttachmentArray(p) ==
  /\ cl[p].pc = "idle"
  /\ \E variant \in Variants, v \in AttachmentInputs :
       Set(p, [Begin("getAttachmentArray", variant, [value |-> v]) EXCEPT
                 !.pc = "done", !.result = Ok(GetAttachmentArray(v))])
  /\ UNCHANGED <<envVars, cache, metaCallTimes, page>>

\* coerceToText(v), the whole function
CallCoerceToText(p) ==
  /\ cl[p].pc = "idle"
  /\ \E v \in TextInputs :
       Set(p, [Begin("coerceToText", "name", [value |-> v]) EXCEPT
                 !.pc = "done", !.result = Ok(Str(CoerceToText(v)))])
  /\ UNCHANGED <<envVars, cache, metaCallTimes, page>>

(***************************************************************************)
(* Calls of the credential resolver on its own                             *)
(***************************************************************************)
\* what localStorage may hold under AIRTABLE_PAT
LsPatPool ==
  {Null, Str(<<>>), Str(<<" ", " ">>), Str(<<"k", "e", "y">>),
   Str(<<" ", "k", " ", "y", " ">>)}

\* what may have been put on window.__AIRTABLE_PAT__
WinPatPool ==
  {Undefined, Null, Str(<<>>), Str(<<"w">>), Str(<<" ", "w">>), Num(0), Num(7),
   Bool(FALSE), Arr(<<>>), Arr(<<<<"a">>, <<"b">>>>)}

\* getAirtableToken(), the whole function
CallGetAirtableToken(p) ==
  /\ cl[p].pc = "idle"
  /\ Set(p, [Begin("getAirtableToken", "name", NoOpts) EXCEPT
               !.pc = "done", !.result = Ok(Token)])
  /\ UNCHANGED <<envVars, cache, metaCallTimes, page>>

(***************************************************************************)
(* Page loaders                                                            *)
(***************************************************************************)
PageNames == {"Programs", "Resources", "MemberContent", "Dashboard", "ProgramDetail"}

\* no earlier load of the component is left
NoOld == [pc |-> "none", stage |-> "none", id |-> <<>>]

\* no page on screen; old is the load of the effect run that was cleaned up
\* when the id changed, navs the number of such changes
NoPage ==
  [name |-> "none", pc |-> "none", stage |-> "none", id |-> <<>>,
   mounted |-> FALSE, loading |-> Undefined, error |-> Undefined,
   items |-> Undefined, rejections |-> 0, unhandled |-> FALSE, old |-> NoOld,
   navs |-> 0]

\* the useState initial values of each page; a page without a loading flag
\* or an error message has Undefined there
InitialPage(name, id) ==
  LET pg == [NoPage EXCEPT !.name = name, !.id = id, !.mounted = TRUE] IN
  CASE name = "Programs" ->
         [pg EXCEPT !.loading = Bool(TRUE), !.error = Str(<<>>), !.items = Null]
    [] name = "Resources" ->
         [pg EXCEPT !.loading = Bool(TRUE), !.error = Str(<<>>), !.items = Arr(<<>>)]
    [] name = "MemberContent" ->
         [pg EXCEPT !.error = Str(<<>>), !.items = Null]
    [] name = "Dashboard" ->
         [pg EXCEPT !.items = Arr(<<>>)]
    [] name = "ProgramDetail" ->
         [pg EXCEPT !.loading = Bool(TRUE), !.error = Str(<<>>), !.items = Null]

\* the fields the program pages ask for
ProgramFields == Arr(<<"name", "summary", "description", "level", "photo", "sortOrder">>)

DetailFields == Arr(<<"name", "description", "level", "photo", "summary">>)

\* id.startsWith('rec')
StartsWithRec(id) == id # <<>> /\ id[1] = "rec"

\* the :id of the route: none, a record identifier, the slug of record 2
\* (which starts with rec), the slug of record 1, a slug of no record
DetailIds ==
  {<<>>, <<"rec", "1">>, <<"rec", "overy-care">>, <<"mtm-the-future-today">>, <<"nope">>}

\* the name field of the store's n-th program
RecordTitle(n) ==
  CASE n = 1 -> "MTM The Future Today"
    [] n = 2 -> "Recovery Care"
    [] OTHER -> ""

\* slugify(title), for the titles above: case folded, each run of other
\* characters made one separator
Slugify(title) ==
  CASE title = "MTM The Future Today" -> <<"mtm-the-future-today">>
    [] title = "Recovery Care" -> <<"rec", "overy-care">>
    [] OTHER -> <<>>

RECURSIVE FindSlugFrom(_, _, _)
FindSlugFrom(records, id, i) ==
  IF i > Len(records) THEN 0
  ELSE IF Slugify(RecordTitle(records[i])) = id THEN i
  ELSE FindSlugFrom(records, id, i + 1)

\* allRecords.records.find(r => slugify(title) === id): its index, 0 if none
FindSlug(records, id) == FindSlugFrom(records, id, 1)

ListRecordsStart(variant, o, tok) ==
  AirtableFetchStart(Begin("listRecords", variant, o), ListRecordsRequest(variant, o), tok)

GetRecordStart(variant, o, tok) ==
  AirtableFetchStart(Begin("getRecord", variant, o), GetRecordRequest(variant, o), tok)

\* the slug search of ProgramDetail, to its await
SlugSearchStart(tok) ==
  ListRecordsStart("id", [NoOpts EXCEPT !.pageSize = Num(100), !.fields = DetailFields], tok)

\* ProgramDetail goes to the slug search whatever the id
LoaderFirstCallSlugOnly(name, id, tok) ==
  CASE name = "Programs" ->
         ListAllStart("id", [NoOpts EXCEPT !.pageSize = Num(100), !.fields = ProgramFields], tok)
    [] name = "Resources" ->
         ListAllStart("name",
           [NoOpts EXCEPT !.fields = Arr(<<"resourceName", "className", "programName">>)], tok)
    [] name = "MemberContent" ->
         ListRecordsStart("id",
           [NoOpts EXCEPT !.pageSize = Num(100),
                          !.fields = Arr(<<"name", "summary", "description", "level", "sortOrder">>)],
           tok)
    [] name = "Dashboard" ->
         ListAllStart("name",
           [NoOpts EXCEPT !.fields = Arr(<<"programName", "programDescription", "programSlug">>)],
           tok)
    [] name = "ProgramDetail" -> SlugSearchStart(tok)

\* load() of each page from its first line to its first await
LoaderFirstCall(name, id, tok) ==
  CASE name = "Programs" ->
         ListAllStart("id", [NoOpts EXCEPT !.pageSize = Num(100), !.fields = ProgramFields], tok)
    [] name = "Resources" ->
         ListAllStart("name",
           [NoOpts EXCEPT !.fields = Arr(<<"resourceName", "className", "programName">>)], tok)
    [] name = "MemberContent" ->
         ListRecordsStart("id",
           [NoOpts EXCEPT !.pageSize = Num(100),
                          !.fields = Arr(<<"name", "summary", "description", "level", "sortOrder">>)],
           tok)
    [] name = "Dashboard" ->
         ListAllStart("name",
           [NoOpts EXCEPT !.fields = Arr(<<"programName", "programDescription", "programSlug">>)],
           tok)
    [] name = "ProgramDetail" ->
         IF StartsWithRec(id)
         THEN GetRecordStart("id", [NoOpts EXCEPT !.recordId = Str(id), !.fields = DetailFields], tok)
         ELSE SlugSearchStart(tok)

\* e?.message || fallback
ErrorMessage(res, fallback) == IF res.msg # <<>> THEN Str(res.msg) ELSE Str(<<fallback>>)

\* no finally block: the flag is left as load() set it
FinallySkipped(pg) == pg

\* finally { if (mounted) setLoading(false) }
Finally(pg) == IF pg.mounted THEN [pg EXCEPT !.loading = Bool(FALSE)] ELSE pg

Settled(pg) == [pg EXCEPT !.pc = "settled"]

\* the catch block does nothing
CatchBlockSilent(pg, res) == Settled([pg EXCEPT !.rejections = @ + 1])

\* the catch block (and the finally block, where there is one) of each load()
CatchBlock(pg, res) ==
  LET p1 == [pg EXCEPT !.rejections = @ + 1] IN
  Settled(
    CASE pg.name = "Programs" ->
           Finally([p1 EXCEPT !.error = ErrorMessage(res, "Failed to load programs"),
                              !.items = Null])
      [] pg.name = "MemberContent" ->
           [p1 EXCEPT !.error = ErrorMessage(res, "Failed to load programs"),
                      !.items = Null]
      [] pg.name = "Resources" ->
           Finally(IF p1.mounted
                   THEN [p1 EXCEPT !.error = ErrorMessage(res, "Failed to load resources")]
                   ELSE p1)
      [] pg.name = "Dashboard" -> p1
      [] pg.name = "ProgramDetail" ->
           Finally(IF p1.mounted
                   THEN [p1 EXCEPT !.error = ErrorMessage(res, "Failed to load program")]
                   ELSE p1))

\* ProgramDetail from `if (!record)` after the lookups to the end of load()
DetailShow(pg, record) ==
  Settled(
    IF ~Truthy(record)
    THEN Finally([pg EXCEPT !.error = Str(<<"Program not found">>)])
    ELSE Finally(IF pg.mounted THEN [pg EXCEPT !.items = record] ELSE pg))

\* load() of each page from the settling of the call it awaits to its next
\* await or its end: the page after it, and the call it goes on to await
LoaderResume(pg, res, tok) ==
  IF pg.name = "ProgramDetail" /\ pg.stage = "getRecord"
  THEN IF res.t = "err"
       THEN [page |-> [pg EXCEPT !.stage = "listRecords", !.rejections = @ + 1],
             call |-> SlugSearchStart(tok)]
       ELSE [page |-> DetailShow(pg, Obj([id |-> res.v.id])), call |-> IdleCall]
  ELSE IF res.t = "err" THEN [page |-> CatchBlock(pg, res), call |-> IdleCall]
  ELSE IF pg.name = "ProgramDetail"
  THEN LET i == FindSlug(res.v.records, pg.id) IN
       [page |-> DetailShow(pg, IF i = 0 THEN Null ELSE Obj([id |-> res.v.records[i]])),
        call |-> IdleCall]
  ELSE IF ~pg.mounted
  THEN [page |-> Settled(pg), call |-> IdleCall]
  ELSE [page |->
          Settled(
            CASE pg.name = "Programs" -> Finally([pg EXCEPT !.items = Arr(res.v)])
              [] pg.name = "Resources" -> Finally([pg EXCEPT !.items = Arr(res.v)])
              [] pg.name = "MemberContent" -> [pg EXCEPT !.items = Arr(res.v.records)]
              [] pg.name = "Dashboard" -> [pg EXCEPT !.items = Arr(res.v)]),
        call |-> IdleCall]

\* the component mounts and its effect runs load() to the first await; the
\* effect of ProgramDetail returns at once when the route has no id
PageMount ==
  /\ page.pc = "none"
  /\ \A p \in Procs : cl[p].pc = "idle"
  /\ \E name \in PageNames, id \in DetailIds :
       /\ name # "ProgramDetail" => id = <<>>
       /\ IF name = "ProgramDetail" /\ id = <<>>
          THEN /\ page' = Settled(InitialPage(name, id))
               /\ cl' = cl
          ELSE /\ page' = [InitialPage(name, id) EXCEPT
                             !.pc = "await",
                             !.stage = IF StartsWithRec(id) THEN "getRecord"
                                       ELSE "listRecords"]
               /\ Set(1, LoaderFirstCall(name, id, Token))
  /\ UNCHANGED <<envVars, cache, metaCallTimes>>

\* the call load() awaits has settled and load() goes on
PageResume ==
  /\ page.pc = "await"
  /\ cl[1].pc = "done"
  /\ LET r == LoaderResume(page, cl[1].result, Token) IN
       /\ page' = r.page
       /\ Set(1, r.call)
  /\ UNCHANGED <<envVars, cache, metaCallTimes>>

\* the component unmounts: the cleanup of the effect sets mounted = false
PageUnmount ==
  /\ page.pc # "none"
  /\ page.mounted
  /\ page' = [page EXCEPT !.mounted = FALSE]
  /\ UNCHANGED <<envVars, cache, metaCallTimes, cl>>

\* the route's id changes under a mounted ProgramDetail: the cleanup of the
\* effect sets the running load's mounted to false (that load goes on as
\* process 2), and the effect runs again for the new id
PageChangeId ==
  /\ page.name = "ProgramDetail"
  /\ page.mounted
  /\ page.pc \in {"await", "settled"}
  /\ page.old.pc # "await"
  /\ cl[2].pc = "idle"
  /\ page.navs < MaxNav
  /\ \E id \in DetailIds \ {page.id} :
       LET old == [pc |-> page.pc, stage |-> page.stage, id |-> page.id] IN
       IF id = <<>>
       THEN /\ page' = [page EXCEPT !.id = id, !.pc = "settled", !.stage = "none",
                                     !.old = old, !.navs = @ + 1]
            /\ cl' = [cl EXCEPT ![1] = IdleCall, ![2] = cl[1]]
       ELSE /\ page' = [page EXCEPT !.id = id, !.pc = "await",
                                     !.stage = IF StartsWithRec(id) THEN "getRecord"
                                               ELSE "listRecords",
                                     !.loading = Bool(TRUE), !.error = Str(<<>>),
                                     !.old = old, !.navs = @ + 1]
            /\ cl' = [cl EXCEPT ![1] = LoaderFirstCall("ProgramDetail", id, Token),
                                 ![2] = cl[1]]
  /\ UNCHANGED <<envVars, cache, metaCallTimes>>

\* the call the cleaned-up load awaits has settled and that load goes on,
\* with its own mounted false, on the state of the component
StaleResume ==
  /\ page.old.pc = "await"
  /\ cl[2].pc = "done"
  /\ LET stale == [page EXCEPT !.mounted = FALSE, !.pc = "await",
                               !.stage = page.old.stage, !.id = page.old.id]
         r == LoaderResume(stale, cl[2].result, Token)
     IN /\ page' = [r.page EXCEPT
                      !.mounted = page.mounted, !.pc = page.pc,
                      !.stage = page.stage, !.id = page.id,
                      !.old = [pc |-> r.page.pc, stage |-> r.page.stage,
                               id |-> page.old.id]]
        /\ Set(2, r.call)
  /\ UNCHANGED <<envVars, cache, metaCallTimes>>

\* the component is gone and its load has ended
PageLeave ==
  /\ page.pc = "settled"
  /\ page.old.pc # "await"
  /\ ~page.mounted
  /\ page' = NoPage
  /\ UNCHANGED <<envVars, cache, metaCallTimes, cl>>

(***************************************************************************)
(* Specifications                                                          *)
(***************************************************************************)
\* the three ways the browser can be set up that the client runs distinguish:
\* nothing set (the embedded token is used), an override in localStorage,
\* and localStorage locked with an empty array injected on window
ClientConfigs ==
  {<<"ok", Null, Undefined>>,
   <<"ok", Str(<<" ", "k", "e", "y", " ">>), Undefined>>,
   <<"denied", Str(<<"k", "e", "y">>), Arr(<<>>)>>}

NoCalls == <<Undefined, Undefined>>

InitClient ==
  /\ \E cfg \in ClientConfigs :
       /\ storage = cfg[1]
       /\ lsPat = cfg[2]
       /\ winPat = cfg[3]
  /\ now = 0
  /\ serverMeta = MetaA
  /\ cache = Null
  /\ metaCallTimes = NoCalls
  /\ cl = [p \in Procs |-> IdleCall]
  /\ page = NoPage

NextClient ==
  \/ CallListRecords(1)
  \/ CallGetRecord(1)
  \/ CallListAllRecords(1)
  \/ CallListRecordsByIds(1)
  \/ ClientRespond(1)
  \/ CallResolve(1)
  \/ MetaRespond(1)
  \/ Return(1)

\* one caller making record-client and resolver calls one after the other,
\* in a time too short for the clock to matter
SpecClient == InitClient /\ [][NextClient]_vars

SchemaConfigs ==
  {<<"ok", Null, Undefined>>,
   <<"full", Null, Undefined>>,
   <<"denied", Null, Undefined>>,
   <<"denied", Null, Arr(<<>>)>>}

InitSchema ==
  /\ \E cfg \in SchemaConfigs :
       /\ storage = cfg[1]
       /\ lsPat = cfg[2]
       /\ winPat = cfg[3]
  /\ now = 0
  /\ serverMeta \in Metas
  /\ cache \in {Null, CorruptEntry}
  /\ metaCallTimes = NoCalls
  /\ cl = [p \in Procs |-> IdleCall]
  /\ page = NoPage

NextSchema ==
  \/ CallResolve(1)
  \/ MetaRespond(1)
  \/ Return(1)
  \/ Tick
  \/ SchemaEdit

\* one caller resolving names one after the other while time passes and the
\* schema is edited
SpecSchema == InitSchema /\ [][NextSchema]_vars

InitToken ==
  /\ storage \in {"ok", "denied", "full"}
  /\ lsPat \in LsPatPool
  /\ winPat \in WinPatPool
  /\ now = 0
  /\ serverMeta = MetaA
  /\ cache = Null
  /\ metaCallTimes = NoCalls
  /\ cl = [p \in Procs |-> IdleCall]
  /\ page = NoPage

NextToken ==
  \/ CallGetAirtableToken(1)
  \/ Return(1)

\* getAirtableToken called in every setting of the browser
SpecToken == InitToken /\ [][NextToken]_vars

\* the two lookups the member pages make side by side
ConcurrentQueries ==
  {[op |-> "resolveTableIdByName", tableName |-> "Programs", fieldName |-> ""],
   [op |-> "resolveFieldIdByNames", tableName |-> "Programs", fieldName |-> "Name"]}

InitConcurrent ==
  /\ storage = "ok"
  /\ lsPat = Null
  /\ winPat = Undefined
  /\ now = 0
  /\ serverMeta \in Metas
  /\ cache = Null
  /\ metaCallTimes = NoCalls
  /\ cl = [p \in Procs |-> IdleCall]
  /\ page = NoPage

NextConcurrent ==
  \/ \E p \in Procs : CallResolveFrom(p, ConcurrentQueries)
  \/ \E p \in Procs : MetaRespondWith(p, ConcurrentAnswers)
  \/ \E p \in Procs : Return(p)
  \/ Tick
  \/ SchemaEdit

\* two resolutions in progress at once
SpecConcurrent == InitConcurrent /\ [][NextConcurrent]_vars

InitHelpers ==
  /\ storage = "ok"
  /\ lsPat = Null
  /\ winPat = Undefined
  /\ now = 0
  /\ serverMeta = MetaA
  /\ cache = Null
  /\ metaCallTimes = NoCalls
  /\ cl = [p \in Procs |-> IdleCall]
  /\ page = NoPage

NextHelpers ==
  \/ CallGetAttachmentArray(1)
  \/ CallCoerceToText(1)
  \/ Return(1)

\* the field-value helpers applied to what a record's field may hold
SpecHelpers == InitHelpers /\ [][NextHelpers]_vars

NextTwin ==
  \/ TwinCallListAllRecords
  \/ TwinRespond
  \/ TwinReturn

\* listAllRecords of both clients run against one sequence of answers
SpecTwin == InitClient /\ [][NextTwin]_vars

\* the same caller, with every request in flight answered in the end, by a
\* response or by a network error
SpecClientFair == SpecClient /\ WF_vars(ClientRespond(1)) /\ WF_vars(MetaRespond(1))

NextPages ==
  \/ PageMount
  \/ ClientRespond(1)
  \/ PageResume
  \/ PageUnmount
  \/ PageLeave

\* one page at a time is opened, loads, and is left
SpecPages == InitClient /\ [][NextPages]_vars

\* the same, with every request in flight answered in the end and load()
\* going on once the call it awaits has settled
SpecPagesFair == SpecPages /\ WF_vars(ClientRespond(1)) /\ WF_vars(PageResume)

NextPagesNav ==
  \/ PageMount
  \/ \E p \in Procs : ClientRespond(p)
  \/ PageResume
  \/ PageChangeId
  \/ StaleResume
  \/ PageUnmount
  \/ PageLeave

NextFieldIds ==
  \/ CallResolveFieldIds(1)
  \/ FieldIdsMetaRespond(1)
  \/ Return(1)
  \/ Tick

\* one caller resolving maps of field identifiers, one call after the other,
\* while time passes
SpecFieldIds == InitSchema /\ [][NextFieldIds]_vars

\* the same, with the route of ProgramDetail going from one id to another
\* while the page is on screen
SpecPagesNav == InitClient /\ [][NextPagesNav]_vars

(***************************************************************************)
(* View mappers                                                            *)
(***************************************************************************)
\* a || b
Or(a, b) == IF Truthy(a) THEN a ELSE b

\* the type of LibResource.type
ResourceTypes ==
  {Str(<<"Clinical">>), Str(<<"Form">>), Str(<<"Handout">>), Str(<<"Protocol">>),
   Str(<<"General">>)}

\* the callback of res.map in Resources.load: `as string` is erased at run time
MapResource(r) ==
  [id |-> r.id,
   name |-> Or(Get(r.fields, "resourceName"), Str(<<"Untitled">>)),
   program |-> Str(<<>>),
   type |-> Or(Get(r.fields, "className"), Str(<<"General">>))]

\* the callback of res.map in Dashboard.load
MapDashboardProgram(r) ==
  [id |-> r.id,
   name |-> Or(Get(r.fields, "programName"), Str(<<"Untitled Program">>)),
   description |-> Or(Get(r.fields, "programDescription"), Str(<<>>)),
   slug |-> Or(Get(r.fields, "programSlug"), r.id)]

\* v.length
LengthOf(v) ==
  CASE v.t = "string" -> Num(Len(v.s))
    [] v.t = "array" -> Num(Len(v.a))
    [] OTHER -> Get(v, "length")

\* image && image.length > 0 ? image[0].url : undefined; reading .url of
\* null or undefined throws
ImageUrl(image) ==
  IF ~Truthy(image) THEN Ok(Undefined)
  ELSE IF ~(LengthOf(image).t = "number" /\ LengthOf(image).n > 0) THEN Ok(Undefined)
  ELSE IF image.t = "string" THEN Ok(Undefined)
  ELSE LET first == IF image.t = "array" THEN image.a[1] ELSE Get(image, "0") IN
       IF first.t \in {"undefined", "null"}
       THEN Err("type", <<"TypeError: Cannot read properties of ", first.t>>)
       ELSE Ok(Get(first, "url"))

\* ProgramDetail's mapping of the record it found: title, description and
\* image (level comes from lib/cellValue)
MapProgramDetail(r) ==
  LET url == ImageUrl(Get(r.fields, "photo")) IN
  IF url.t = "err" THEN url
  ELSE Ok([id |-> r.id,
           title |-> Or(Get(r.fields, "name"), Str(<<"Untitled Program">>)),
           description |-> Or(Get(r.fields, "description"),
                              Or(Get(r.fields, "summary"), Str(<<>>))),
           image |-> url.v])

\* what a text or select field of a record may hold; Undefined stands for a
\* field the store left out
FieldPool ==
  {Undefined, Null, Str(<<>>), Str(<<"Clinical">>), Str(<<"Billing">>), Num(42),
   Arr(<<Str(<<"Form">>)>>)}

\* what an attachment field may hold
PhotoPool ==
  {Undefined, Arr(<<>>), Arr(<<Obj([url |-> Str(<<"u">>)])>>), Arr(<<Null>>),
   Str(<<"u">>), Num(1)}

\* { ...fields }: the keys that are there
FieldsOf(f) == Obj([k \in {k \in DOMAIN f : f[k] # Undefined} |-> f[k]])

ResourceRecords ==
  {[id |-> Str(<<"rec", n>>), fields |-> FieldsOf([resourceName |-> a, className |-> b])] :
     n \in {1}, a \in {Undefined, Str(<<"Guide">>), Num(42)}, b \in FieldPool}

DashboardRecords ==
  {[id |-> Str(<<"rec", n>>),
    fields |-> FieldsOf([programName |-> a, programDescription |-> b, programSlug |-> c])] :
     n \in {1}, a \in FieldPool, b \in {Undefined, Str(<<"About">>), Num(42)},
     c \in {Undefined, Str(<<"mtm">>), Num(42)}}

DetailRecords ==
  {[id |-> Str(<<"rec", n>>),
    fields |-> FieldsOf([name |-> a, description |-> b, summary |-> c, photo |-> d])] :
     n \in {1}, a \in {Undefined, Str(<<"Name">>), Num(42)},
     b \in {Undefined, Str(<<"Long">>)}, c \in {Undefined, Str(<<"Short">>), Num(42)},
     d \in PhotoPool}

RECURSIVE MapSeq(_, _)
\* list.map(f)
MapSeq(F(_), list) ==
  IF list = <<>> THEN <<>> ELSE <<F(list[1])>> \o MapSeq(F, Tail(list))

\* res.map(...) of Resources.load
CallMapResources(p) ==
  /\ cl[p].pc = "idle"
  /\ \E recs \in SeqsUpTo(ResourceRecords, MaxEntries) :
       Set(p, [Begin("mapResources", "name", [value |-> recs]) EXCEPT
                 !.pc = "done", !.result = Ok(MapSeq(MapResource, recs))])
  /\ UNCHANGED <<envVars, cache, metaCallTimes, page>>

\* res.map(...) of Dashboard.load
CallMapDashboard(p) ==
  /\ cl[p].pc = "idle"
  /\ \E r \in DashboardRecords :
       Set(p, [Begin("mapDashboard", "name", [value |-> <<r>>]) EXCEPT
                 !.pc = "done", !.result = Ok(MapSeq(MapDashboardProgram, <<r>>))])
  /\ UNCHANGED <<envVars, cache, metaCallTimes, page>>

\* the mapping of ProgramDetail.loadProgram
CallMapProgramDetail(p) ==
  /\ cl[p].pc = "idle"
  /\ \E r \in DetailRecords :
       Set(p, [Begin("mapProgramDetail", "id", [value |-> <<r>>]) EXCEPT
                 !.pc = "done", !.result = MapProgramDetail(r)])
  /\ UNCHANGED <<envVars, cache, metaCallTimes, page>>

NextMappers ==
  \/ CallMapResources(1)
  \/ CallMapDashboard(1)
  \/ CallMapProgramDetail(1)
  \/ Return(1)

\* the view mappers applied to records as the store may send them
SpecMappers == InitHelpers /\ [][NextMappers]_vars

(***************************************************************************)
(* The status chip, and the token as the client sees it                    *)
(***************************************************************************)
\* Boolean(getAirtableToken()) and the chip's text
AirtableStatus(tok) ==
  IF Truthy(tok) THEN Str(<<"Airtable: Configured">>)
  ELSE Str(<<"Airtable: Not Configured">>)

\* the chip renders
RenderAirtableStatus(p) ==
  /\ cl[p].pc = "idle"
  /\ Set(p, [Begin("AirtableStatus", "name", NoOpts) EXCEPT
               !.tokenReads = 1, !.pc = "done", !.result = Ok(AirtableStatus(Token))])
  /\ UNCHANGED <<envVars, cache, metaCallTimes, page>>

NextTokenUse ==
  \/ CallGetAirtableToken(1)
  \/ RenderAirtableStatus(1)
  \/ CallGetRecord(1)
  \/ ClientRespond(1)
  \/ CallResolve(1)
  \/ MetaRespond(1)
  \/ Return(1)

\* the token read directly, by the chip, by airtableFetch and by fetchMeta,
\* in every setting of the browser
SpecTokenUse == InitToken /\ [][NextTokenUse]_vars

(***************************************************************************)
(* Properties of the record client                                         *)
(***************************************************************************)
RECURSIVE FlattenPages(_)
\* P1 ++ ... ++ Pn of the pages in a log of 2xx responses
FlattenPages(log) ==
  IF log = <<>> THEN <<>> ELSE log[1].payload.records \o FlattenPages(Tail(log))

AllOk(log) == \A k \in 1..Len(log) : log[k].kind = "ok"

HasToken(resp) == resp.kind = "ok" /\ Truthy(resp.payload.offset)

\* request 1 carries no offset, request k+1 the offset of response k
OffsetsChained(c) ==
  /\ c.reqLog # <<>> => c.reqLog[1].offset = Undefined
  /\ \A k \in 1..Len(c.respLog) :
       k + 1 <= Len(c.reqLog) => c.reqLog[k + 1].offset = c.respLog[k].payload.offset

ListAllRun(c) == c.op = "listAllRecords" /\ c.pc # "idle"

\* C3: a listAllRecords run without maxRecords asks for page k+1 with the
\* token of page k (the first request without one), goes on exactly while the
\* pages carry a token, and on the first page without one returns, after n
\* requests for n pages, the concatenation P1 ++ ... ++ Pn in order.
ListAllConcatenatesPages ==
  \A p \in Procs :
    LET c == cl[p] IN
    (ListAllRun(c) /\ ~Truthy(c.opts.maxRecords) /\ AllOk(c.respLog)) =>
      /\ OffsetsChained(c)
      /\ c.pc = "await" =>
           /\ Len(c.reqLog) = Len(c.respLog) + 1
           /\ \A k \in 1..Len(c.respLog) : HasToken(c.respLog[k])
      /\ (c.pc = "done" /\ c.respLog # <<>>) =>
           /\ Len(c.reqLog) = Len(c.respLog)
           /\ \A k \in 1..(Len(c.respLog) - 1) : HasToken(c.respLog[k])
           /\ ~HasToken(c.respLog[Len(c.respLog)])
           /\ c.result = Ok(FlattenPages(c.respLog))

\* three pages of two, two and one records, only the last without a token
ListAllThreePagesWitness ==
  \E p \in Procs :
    /\ cl[p].op = "listAllRecords" /\ cl[p].pc = "done"
    /\ ~Truthy(cl[p].opts.maxRecords)
    /\ Len(cl[p].respLog) = 3 /\ AllOk(cl[p].respLog)
    /\ cl[p].result = Ok(<<1, 2, 3, 4, 5>>)

\* the first m elements of s
FirstM(s, m) == [i \in 1..m |-> s[i]]

\* C4: with maxRecords = m > 0, listAllRecords has no request in flight once
\* m records are accumulated, and the run that reaches m (mid-page or at a page
\* end) returns exactly the first m accumulated records after as many requests
\* as it took to reach m, whether or not the last page carried a token.
ListAllStopsAtMaxRecords ==
  \A p \in Procs :
    LET c == cl[p]
        m == c.opts.maxRecords.n
    IN (ListAllRun(c) /\ c.opts.maxRecords.t = "number" /\ m > 0 /\ AllOk(c.respLog)) =>
         /\ c.pc = "await" => CountRecords(c.respLog) < m
         /\ (c.pc = "done" /\ CountRecords(c.respLog) >= m) =>
              /\ c.result = Ok(FirstM(FlattenPages(c.respLog), m))
              /\ Len(c.reqLog) = Len(c.respLog)
              /\ CountRecords(SubSeq(c.respLog, 1, Len(c.respLog) - 1)) < m

\* maxRecords = 3 is passed in the middle of the second page, which carries a
\* token
ListAllCutMidPageWitness ==
  \E p \in Procs :
    /\ cl[p].op = "listAllRecords" /\ cl[p].pc = "done"
    /\ cl[p].opts.maxRecords = Num(3)
    /\ Len(cl[p].respLog) = 2
    /\ CountRecords(cl[p].respLog) = 4
    /\ HasToken(cl[p].respLog[2])
    /\ cl[p].result = Ok(<<1, 2, 3>>)

ByIdsCall(c) == c.op = "listRecordsByIds" /\ c.pc # "idle"

\* C5: listRecordsByIds with an empty identifier list ends at once with
\* {records: []}, having issued no HTTP request and not read the token.
ByIdsEmptyShortCircuits ==
  \A p \in Procs :
    LET c == cl[p] IN
    (ByIdsCall(c) /\ c.opts.recordIds.a = <<>>) =>
      /\ c.pc = "done"
      /\ c.result = Ok([records |-> <<>>])
      /\ c.reqLog = <<>>
      /\ c.tokenReads = 0

ByIdsEmptyWitness ==
  \E p \in Procs :
    /\ ByIdsCall(cl[p]) /\ cl[p].opts.recordIds.a = <<>>
    /\ cl[p].pc = "done" /\ cl[p].result.t = "ok"

Malformed == [ok |-> FALSE, lits |-> <<>>]

RECURSIVE ReadLiteral(_, _, _)
\* the store reading a string literal from the piece after its opening
\* quote: it ends at the next quote that no backslash precedes
ReadLiteral(f, i, acc) ==
  IF i > Len(f) THEN [ok |-> FALSE, lit |-> acc, next |-> i]
  ELSE IF f[i] = "'" THEN [ok |-> TRUE, lit |-> acc, next |-> i + 1]
  ELSE IF f[i] = "\\"
  THEN IF i + 1 > Len(f) THEN [ok |-> FALSE, lit |-> acc, next |-> i]
       ELSE ReadLiteral(f, i + 2, Append(acc, f[i + 1]))
  ELSE ReadLiteral(f, i + 1, Append(acc, f[i]))

RECURSIVE ReadPredicates(_, _, _)
ReadPredicates(f, i, acc) ==
  IF i + 1 > Len(f) \/ f[i] # "RECORD_ID()=" \/ f[i + 1] # "'" THEN Malformed
  ELSE LET r == ReadLiteral(f, i + 2, <<>>) IN
       IF ~r.ok \/ r.next > Len(f) THEN Malformed
       ELSE IF f[r.next] = ")"
       THEN IF r.next = Len(f) THEN [ok |-> TRUE, lits |-> Append(acc, r.lit)]
            ELSE Malformed
       ELSE IF f[r.next] = "," THEN ReadPredicates(f, r.next + 1, Append(acc, r.lit))
       ELSE Malformed

\* the store reading OR(RECORD_ID()='..',...): the literals compared against
ReadIdsFormula(f) ==
  IF f # <<>> /\ f[1] = "OR(" THEN ReadPredicates(f, 2, <<>>) ELSE Malformed

\* no quote and no backslash among the characters of the identifiers
PlainIds(ids) ==
  \A i \in 1..Len(ids) : \A k \in 1..Len(ids[i]) : ids[i][k] \notin {"'", "\\"}

RECURSIVE PredicateWidths(_, _)
\* the pieces the predicates of ids[1..i] take, separators included
PredicateWidths(ids, i) ==
  IF i = 0 THEN 0 ELSE Len(ids[i]) + 4 + PredicateWidths(ids, i - 1)

\* where the predicate of ids[i] starts in the formula
PredicateStart(ids, i) == 2 + PredicateWidths(ids, i - 1)

\* C6: for identifiers i1..in (n > 0) listRecordsByIds sends one filter, a
\* single OR(...) holding, in the order supplied and duplicates included,
\* exactly one predicate RECORD_ID()='i' per identifier, comma separated;
\* when no identifier holds a quote or a backslash, the store reads it back
\* as n predicates on exactly i1..in.
ByIdsOnePredicatePerId ==
  \A p \in Procs :
    LET c == cl[p]
        ids == c.opts.recordIds.a
        n == Len(ids)
    IN (ByIdsCall(c) /\ n > 0 /\ c.reqLog # <<>>) =>
         /\ Len(c.reqLog) = 1
         /\ c.reqLog[1].filterByFormula.t = "string"
         /\ LET f == c.reqLog[1].filterByFormula.s IN
              /\ Len(f) = 1 + PredicateWidths(ids, n)
              /\ f[1] = "OR("
              /\ f[Len(f)] = ")"
              /\ \A i \in 1..n :
                   LET a == PredicateStart(ids, i) IN
                   /\ f[a] = "RECORD_ID()="
                   /\ f[a + 1] = "'"
                   /\ SubSeq(f, a + 2, a + 1 + Len(ids[i])) = ids[i]
                   /\ f[a + 2 + Len(ids[i])] = "'"
                   /\ i < n => f[a + 3 + Len(ids[i])] = ","
              /\ PlainIds(ids) => ReadIdsFormula(f) = [ok |-> TRUE, lits |-> ids]

\* the same identifier twice
ByIdsDuplicateWitness ==
  \E p \in Procs :
    /\ ByIdsCall(cl[p]) /\ cl[p].reqLog # <<>>
    /\ cl[p].opts.recordIds.a = << <<"rec", "1">>, <<"rec", "1">> >>

\* C7: the filter listRecordsByIds sends reads back as one predicate per
\* identifier whose literal is exactly that identifier, whatever characters
\* the identifier holds.
ByIdsLiteralsDenoteIds ==
  \A p \in Procs :
    LET c == cl[p] IN
    (ByIdsCall(c) /\ c.reqLog # <<>>) =>
      ReadIdsFormula(c.reqLog[1].filterByFormula.s)
        = [ok |-> TRUE, lits |-> c.opts.recordIds.a]

\* the rejection a failed response must surface as
SurfacedAs(resp, result, prefix) ==
  /\ result.t = "err"
  /\ resp.kind = "neterr" => result.kind = "network"
  /\ resp.kind = "badjson" => result.kind = "json"
  /\ resp.kind = "http" =>
       /\ result.kind = "http"
       /\ result.msg[1] = prefix
       /\ result.msg[2] = resp.status
       /\ result.msg[4] = (IF resp.bodyOk /\ resp.body # "" THEN resp.body
                           ELSE resp.statusText)

SinglePageCall(c) == c.op \in {"listRecords", "getRecord"} /\ c.pc = "done" /\ c.respLog # <<>>

\* C9 as claimed: a non-success response rejects listRecords / getRecord with
\* the status and the body text (the status text when the body is empty or
\* unreadable) in the message, and a response with a success status never
\* rejects.
HttpErrorOnlyOnNonSuccess ==
  \A p \in Procs :
    LET c == cl[p] IN
    SinglePageCall(c) =>
      LET resp == c.respLog[1] IN
      /\ resp.kind = "http" => SurfacedAs(resp, c.result, "Airtable error ")
      /\ resp.status = 200 => c.result.t = "ok"

\* C9, amended: a non-success response rejects listRecords / getRecord with
\* the status and the body text (the status text when the body is empty or
\* unreadable) in the message; a success response whose body parses resolves
\* with that body, one whose body does not parse rejects with the parse error.
HttpErrorCarriesStatusAndBody ==
  \A p \in Procs :
    LET c == cl[p] IN
    SinglePageCall(c) =>
      LET resp == c.respLog[1] IN
      /\ resp.kind = "http" => SurfacedAs(resp, c.result, "Airtable error ")
      /\ resp.kind = "ok" => c.result = Ok(resp.payload)
      /\ resp.kind = "badjson" => c.result.t = "err" /\ c.result.kind = "json"

\* a 500 whose body cannot be read: the status text stands in
HttpErrorFallbackWitness ==
  \E p \in Procs :
    /\ SinglePageCall(cl[p])
    /\ cl[p].respLog[1].kind = "http" /\ ~cl[p].respLog[1].bodyOk
    /\ cl[p].result.msg = <<"Airtable error ", 500, ": ", "Server Error">>

\* C10: no request is repeated. Every call has issued one request per
\* response received (plus the one in flight), a failed response is the last
\* of its call, and a listAllRecords run whose page k fails rejects with that
\* very failure after exactly k requests, returning none of the records of
\* the k-1 pages before.
NoRetry ==
  \A p \in Procs :
    LET c == cl[p]
        k == Len(c.respLog)
    IN c.pc # "idle" =>
         /\ Len(c.reqLog) = k + (IF c.pc = "await" THEN 1 ELSE 0)
         /\ \A j \in 1..(k - 1) : c.respLog[j].kind = "ok"
         /\ c.op # "listAllRecords" => Len(c.reqLog) <= 1
         /\ (k > 0 /\ c.respLog[k].kind # "ok") =>
              /\ c.pc = "done"
              /\ SurfacedAs(c.respLog[k], c.result,
                            IF c.op \in ClientOps THEN "Airtable error "
                            ELSE "Airtable Metadata error ")

\* the second page of a run fails after the first brought records
ListAllFailsOnPageTwoWitness ==
  \E p \in Procs :
    /\ cl[p].op = "listAllRecords" /\ cl[p].pc = "done"
    /\ Len(cl[p].respLog) = 2 /\ cl[p].respLog[2].kind = "http"
    /\ cl[p].out # <<>>
    /\ cl[p].result.t = "err"

\* the resolver had to fetch: the cache did not answer
FetchedMeta(c) ==
  c.op \in ResolveOps /\ c.pc # "idle"
  /\ ~(storage # "denied" /\ c.cacheAtStart.t = "entry"
       /\ c.startedAt - c.cacheAtStart.at < META_CACHE_TTL_MS)

RejectedForAuth(c) ==
  c.pc = "done" /\ c.result.t = "err" /\ c.result.kind = "auth" /\ c.reqLog = <<>>

\* C8 as claimed: with no token to be had, every operation of the record
\* client, and the metadata fetch, rejects without an HTTP request.
AuthMissingRejectsEveryOperation ==
  \A p \in Procs :
    LET c == cl[p] IN
    ~Truthy(Token) =>
      /\ (c.op \in ClientOps /\ c.pc # "idle") => RejectedForAuth(c)
      /\ FetchedMeta(c) => RejectedForAuth(c)

\* C8, amended: with no token to be had no call issues an HTTP request; the
\* metadata fetch and every operation of the record client reject, except
\* listRecordsByIds with an empty list, which resolves with {records: []}.
AuthMissingRejectsBeforeFetch ==
  \A p \in Procs :
    LET c == cl[p] IN
    (~Truthy(Token) /\ c.pc # "idle") =>
      /\ c.reqLog = <<>>
      /\ c.pc = "done"
      /\ (c.op \in ClientOps /\ ~(c.op = "listRecordsByIds" /\ c.opts.recordIds.a = <<>>))
           => RejectedForAuth(c)
      /\ (c.op = "listRecordsByIds" /\ c.opts.recordIds.a = <<>>)
           => c.result = Ok([records |-> <<>>])
      /\ FetchedMeta(c) => RejectedForAuth(c)

AuthMissingWitness ==
  \E p \in Procs :
    /\ ~Truthy(Token)
    /\ cl[p].op = "listAllRecords"
    /\ RejectedForAuth(cl[p])

(***************************************************************************)
(* Properties of the schema resolver                                       *)
(***************************************************************************)
Resolved(c) == c.op \in ResolveOps /\ c.pc = "done" /\ c.meta # Undefined

\* the tables, and the fields of a table, that bear a name
TablesNamed(meta, name) == {i \in 1..Len(meta.tables) : meta.tables[i].name = name}

FieldsNamed(table, name) == {j \in 1..Len(table.fields) : table.fields[j].name = name}

\* C1: a resolution returns, for a table (a field of a table) the metadata
\* payload names, exactly the identifier the payload gives it; it rejects
\* with table-not-found when the payload has no table of that name, and with
\* field-not-found when the table is there and has no field of that name.
ResolveReturnsPayloadIds ==
  \A p \in Procs :
    LET c == cl[p]
        ts == TablesNamed(c.meta, c.opts.tableName)
    IN Resolved(c) =>
         IF ts = {}
         THEN c.result.t = "err" /\ c.result.kind = "table-not-found"
         ELSE \A i \in ts :
                IF c.op = "resolveTableIdByName"
                THEN c.result = Ok(c.meta.tables[i].id)
                ELSE LET fs == FieldsNamed(c.meta.tables[i], c.opts.fieldName) IN
                     IF fs = {}
                     THEN c.result.t = "err" /\ c.result.kind = "field-not-found"
                     ELSE \A j \in fs : c.result = Ok(c.meta.tables[i].fields[j].id)

ResolveFieldWitness ==
  \E p \in Procs :
    /\ Resolved(cl[p]) /\ cl[p].op = "resolveFieldIdByNames"
    /\ cl[p].opts.tableName = "Programs" /\ cl[p].opts.fieldName = "Level"
    /\ cl[p].result = Ok("fldPL")
    /\ cl[p].reqLog # <<>>

FoundFresh(c) ==
  /\ storage # "denied"
  /\ c.cacheAtStart.t = "entry"
  /\ c.startedAt - c.cacheAtStart.at < META_CACHE_TTL_MS

SuccessfulCallsApart ==
  (metaCallTimes[1] # Undefined /\ metaCallTimes[2] # Undefined) =>
     metaCallTimes[2].n - metaCallTimes[1].n >= META_CACHE_TTL_MS

ResolveCall(c) == c.op \in ResolveOps /\ c.pc # "idle"

\* C2 as claimed: two metadata calls that both succeed are never made within
\* 5 minutes of each other, and a resolution that finds the entry 5 minutes
\* old or older and fetches with success leaves its payload as the entry.
SchemaCacheOneCallPerWindow ==
  /\ SuccessfulCallsApart
  /\ \A p \in Procs :
       LET c == cl[p] IN
       (ResolveCall(c) /\ c.pc = "done" /\ c.cacheAtStart.t = "entry"
          /\ ~FoundFresh(c) /\ c.meta # Undefined) =>
         /\ Len(c.reqLog) = 1
         /\ cache.t = "entry" /\ cache.data = c.meta /\ cache.at >= c.startedAt

\* C2, amended: a resolution that finds a readable entry younger than 5
\* minutes answers from it without a metadata call; one that finds none
\* makes exactly one call (none without a token) and, when the call succeeds
\* and the storage takes the write, leaves its payload as the entry, stamped
\* at the write; so with a storage that takes writes, two successful calls of
\* resolutions made one after the other are never less than 5 minutes apart.
SchemaCacheServesWithinWindow ==
  /\ storage = "ok" => SuccessfulCallsApart
  /\ \A p \in Procs :
       LET c == cl[p] IN
       ResolveCall(c) =>
         /\ FoundFresh(c) =>
              c.pc = "done" /\ c.reqLog = <<>> /\ c.meta = c.cacheAtStart.data
         /\ (~FoundFresh(c) /\ Truthy(Token)) => Len(c.reqLog) = 1
         /\ (~FoundFresh(c) /\ c.pc = "done" /\ c.meta # Undefined /\ storage = "ok") =>
              /\ cache.t = "entry"
              /\ cache.data = c.meta
              /\ c.startedAt <= cache.at /\ cache.at <= now

\* an entry exactly 5 minutes old at the start was replaced
SchemaCacheRefetchWitness ==
  \E p \in Procs :
    /\ ResolveCall(cl[p]) /\ cl[p].pc = "done"
    /\ cl[p].cacheAtStart.t = "entry"
    /\ cl[p].startedAt - cl[p].cacheAtStart.at = META_CACHE_TTL_MS
    /\ Len(cl[p].reqLog) = 1
    /\ cache.t = "entry" /\ cache.at > cl[p].startedAt


(***************************************************************************)
(* Properties of the credential resolver                                   *)
(***************************************************************************)
NonSpace(s) == {i \in 1..Len(s) : s[i] # " "}

\* s from its first to its last character that is not a space
Core(s) ==
  IF NonSpace(s) = {} THEN <<>>
  ELSE SubSeq(s, CHOOSE i \in NonSpace(s) : \A j \in NonSpace(s) : i <= j,
                 CHOOSE i \in NonSpace(s) : \A j \in NonSpace(s) : i >= j)

\* the override can be read and is more than spaces
OverrideFound ==
  storage # "denied" /\ lsPat.t = "string" /\ NonSpace(lsPat.s) # {}

\* something other than undefined, null, '', 0 or false is on window
WindowFound ==
  winPat \notin {Undefined, Null, Str(<<>>), Num(0), Bool(FALSE)}

TokenCall(c) == c.op = "getAirtableToken" /\ c.pc = "done"

\* C11: getAirtableToken never throws and takes the first of: the
\* localStorage override without its surrounding spaces, when it can be read
\* and is more than spaces; the value on window (as a string), when one is
\* set; the embedded token. An override that cannot be read or is only
\* spaces counts as absent.
TokenPriority ==
  \A p \in Procs :
    LET c == cl[p] IN
    TokenCall(c) =>
      /\ c.result.t = "ok"
      /\ c.result.v.t = "string"
      /\ IF OverrideFound THEN c.result.v.s = Core(lsPat.s)
         ELSE IF WindowFound
         THEN /\ c.result.v.s = JsString(winPat)
              /\ winPat.t = "string" => c.result.v = winPat
         ELSE c.result.v = DEV_FALLBACK_PAT

\* localStorage throws on access while holding a usable override: the value
\* on window is taken
TokenStorageThrowsWitness ==
  \E p \in Procs :
    /\ TokenCall(cl[p])
    /\ storage = "denied" /\ lsPat = Str(<<"k", "e", "y">>)
    /\ winPat = Str(<<"w">>)
    /\ cl[p].result = Ok(Str(<<"w">>))


\* the cache could not be read at the start of the resolution
CacheReadThrew(c) == storage = "denied" \/ c.cacheAtStart = CorruptEntry

ResolutionErrors ==
  {"auth", "network", "http", "json", "table-not-found", "field-not-found"}

\* C12: a resolution whose cache read or parse throws goes on to the
\* metadata fetch; one whose fetch succeeds works on the fetched payload
\* whether or not the cache write throws; and every rejection is one of the
\* fetch (no token, no response, non-success status, unparsable body) or of
\* the lookup (table or field not found), never one of the cache.
CacheErrorsSwallowed ==
  \A p \in Procs :
    LET c == cl[p] IN
    ResolveCall(c) =>
      /\ (CacheReadThrew(c) /\ Truthy(Token)) => Len(c.reqLog) = 1
      /\ (CacheReadThrew(c) /\ ~Truthy(Token)) => RejectedForAuth(c)
      /\ (c.pc = "done" /\ c.respLog # <<>> /\ c.respLog[1].kind = "ok") =>
           /\ c.meta = c.respLog[1].payload
           /\ c.result = Lookup(c, c.respLog[1].payload)
      /\ (c.pc = "done" /\ c.result.t = "err") =>
           /\ c.result.kind \in ResolutionErrors
           /\ c.result.kind = "auth" => ~Truthy(Token)
           /\ c.result.kind \in {"network", "http", "json"} =>
                c.respLog # <<>> /\ c.respLog[1].kind # "ok"

\* an unparsable entry is found, the fetch succeeds, the write is refused:
\* the name is resolved from the fetched payload and the entry stays as it was
CacheWriteRefusedWitness ==
  \E p \in Procs :
    /\ ResolveCall(cl[p]) /\ cl[p].pc = "done"
    /\ storage = "full" /\ cl[p].cacheAtStart = CorruptEntry
    /\ cl[p].respLog # <<>> /\ cl[p].respLog[1].kind = "ok"
    /\ cl[p].result.t = "ok"
    /\ cache = CorruptEntry


(***************************************************************************)
(* Properties of resolutions in progress at once                           *)
(***************************************************************************)
\* the metadata request of p is answered with a payload in this step
FetchSucceeds(p) ==
  cl[p].op \in ResolveOps /\ cl[p].pc = "await"
  /\ cl'[p].pc = "done" /\ cl'[p].meta # Undefined

\* every resolution that misses the cache has a fetch of its own, whatever
\* the other one is doing, and works on the payload of that fetch
OwnFetchOwnPayload ==
  \A p \in Procs :
    LET c == cl[p] IN
    ResolveCall(c) =>
      /\ ~FoundFresh(c) => Len(c.reqLog) = 1
      /\ (c.pc = "done" /\ c.reqLog # <<>> /\ c.respLog[1].kind = "ok") =>
           /\ c.meta = c.respLog[1].payload
           /\ c.result = Lookup(c, c.respLog[1].payload)

\* each successful fetch writes its payload over whatever entry is there, and
\* nothing else changes the entry
EveryWriteOverwrites ==
  /\ \A p \in Procs : FetchSucceeds(p) => cache' = CacheEntry(now, cl'[p].meta)
  /\ cache' # cache => \E p \in Procs : FetchSucceeds(p)

\* C13: resolutions are neither deduplicated nor mutually excluded. Each one
\* that finds no fresh entry issues a metadata fetch of its own and returns
\* from the payload of that fetch, and each successful fetch overwrites the
\* cache entry, so the entry left behind is that of the last write.
ConcurrentResolutionsLastWriterWins ==
  []OwnFetchOwnPayload /\ [][EveryWriteOverwrites]_vars

\* both resolutions started at the same time on an empty cache, the schema
\* was edited between their answers, each holds the payload of its own fetch
\* and the entry is that of the second
ConcurrentMissWitness ==
  /\ \A p \in Procs :
       /\ ResolveCall(cl[p]) /\ cl[p].pc = "done"
       /\ cl[p].cacheAtStart = Null /\ cl[p].startedAt = 0
       /\ Len(cl[p].reqLog) = 1
  /\ cl[1].meta = MetaA /\ cl[2].meta = MetaB
  /\ cache.t = "entry" /\ cache.data = MetaB


(***************************************************************************)
(* Properties of the field-value helpers                                   *)
(***************************************************************************)
\* values JavaScript takes for false
Falsy == {Undefined, Null, Str(<<>>), Num(0), Bool(FALSE)}

\* the entry is an object with something under each of id, url, filename
ExposesAll(a) ==
  a.t = "object" /\ \A k \in AttachmentKeys : k \in DOMAIN a.m /\ a.m[k] \notin Falsy

AttachmentCall(c) == c.op = "getAttachmentArray" /\ c.pc = "done"

\* C14: getAttachmentArray of an array returns, for each entry that exposes
\* all of id, url and filename, one object of just those three properties, in
\* the order of the entries, and nothing for any other entry; of anything
\* that is not an array it returns the empty list.
AttachmentsKeepCompleteEntries ==
  \A p \in Procs :
    LET c == cl[p]
        v == c.opts.value
    IN AttachmentCall(c) =>
         IF v.t # "array" THEN c.result = Ok(<<>>)
         ELSE LET kept == {i \in 1..Len(v.a) : ExposesAll(v.a[i])}
                  res == c.result.v
              IN /\ c.result.t = "ok"
                 /\ Len(res) = Cardinality(kept)
                 /\ \A i \in kept :
                      res[Cardinality({j \in kept : j <= i})] =
                        Obj([id |-> v.a[i].m.id, url |-> v.a[i].m.url,
                             filename |-> v.a[i].m.filename])

\* an entry with an id only before a complete one that has a size as well:
\* the second alone survives, without its size
AttachmentDropWitness ==
  \E p \in Procs :
    /\ AttachmentCall(cl[p])
    /\ cl[p].opts.value.t = "array" /\ Len(cl[p].opts.value.a) = 2
    /\ cl[p].opts.value.a[1] = Obj([id |-> Str(<<"a2">>)])
    /\ cl[p].result =
         Ok(<<Obj([id |-> Str(<<"a3">>), url |-> Str(<<"u">>), filename |-> Str(<<"f">>)])>>)

\* the text a value contributes when it is a string with more than spaces
Word(v) == IF v.t = "string" THEN Core(v.s) ELSE <<>>

RECURSIVE SpaceJoined(_, _)
\* the words of a[1..n], one space between neighbours
SpaceJoined(a, n) ==
  IF n = 0 THEN <<>>
  ELSE LET before == SpaceJoined(a, n - 1) IN
       IF Word(a[n]) = <<>> THEN before
       ELSE IF before = <<>> THEN Word(a[n])
       ELSE before \o <<" ">> \o Word(a[n])

\* what a candidate of an object yields
CandidateText(v) ==
  IF v.t = "string" THEN Core(v.s)
  ELSE IF v.t = "array" THEN SpaceJoined(v.a, Len(v.a))
  ELSE <<>>

\* the candidates of an object that yield something, by rank
UsableCandidates(obj) ==
  {i \in 1..Len(CandidateKeys) :
     CandidateKeys[i] \in DOMAIN obj.m /\ CandidateText(obj.m[CandidateKeys[i]]) # <<>>}

CoerceCall(c) == c.op = "coerceToText" /\ c.pc = "done"

\* C15: coerceToText returns a string without its surrounding spaces; of an
\* array the string elements that are more than spaces, each without its
\* surrounding spaces, one space between them; of an object what the first of
\* text, value, plain_text, content, description that yields something
\* yields, a string as above, an array as above; and '' for anything else.
CoerceToTextByKind ==
  \A p \in Procs :
    LET c == cl[p]
        v == c.opts.value
    IN CoerceCall(c) =>
         /\ c.result.t = "ok" /\ c.result.v.t = "string"
         /\ c.result.v.s =
              (CASE v.t = "string" -> Core(v.s)
                 [] v.t = "array" -> SpaceJoined(v.a, Len(v.a))
                 [] v.t = "object" ->
                      IF UsableCandidates(v) = {} THEN <<>>
                      ELSE LET first == CHOOSE i \in UsableCandidates(v) :
                                          \A j \in UsableCandidates(v) : i <= j
                           IN CandidateText(v.m[CandidateKeys[first]])
                 [] OTHER -> <<>>)

\* text holds only spaces, value an array, description a string: the words
\* of the array under value are returned
CoerceSecondCandidateWitness ==
  \E p \in Procs :
    /\ CoerceCall(cl[p])
    /\ cl[p].opts.value.t = "object"
    /\ DOMAIN cl[p].opts.value.m = {"title", "text", "value", "description"}
    /\ cl[p].opts.value.m["text"] = Str(<<" ">>)
    /\ cl[p].opts.value.m["description"].t = "string"
    /\ cl[p].result = Ok(Str(<<"value", " ", "z">>))


(***************************************************************************)
(* Properties of the two clients side by side                              *)
(***************************************************************************)
\* the request of the identifier-keyed client is that of the name-keyed one
\* with returnFieldsByFieldId=true added
SameRequestsButFlag(a, b) ==
  /\ Len(a.reqLog) = Len(b.reqLog)
  /\ \A k \in 1..Len(a.reqLog) :
       /\ ~a.reqLog[k].byId
       /\ b.reqLog[k] = [a.reqLog[k] EXCEPT !.byId = TRUE]

TwinRun == cl[1].op = "listAllRecords" /\ cl[1].pc # "idle"

InFlight(c) == Len(c.reqLog) - Len(c.respLog)

\* a run has at most one request in flight, none once it has ended, and its
\* request k+1 carries the token that came with response k
OnePageInFlight ==
  \A p \in Procs :
    LET c == cl[p] IN
    ListAllRun(c) =>
      /\ InFlight(c) = (IF c.pc = "await" THEN 1 ELSE 0)
      /\ \A k \in 1..(Len(c.reqLog) - 1) :
           /\ k <= Len(c.respLog)
           /\ HasToken(c.respLog[k])
           /\ c.reqLog[k + 1].offset = c.respLog[k].payload.offset

\* a step of a run in progress that issues a request issues one, and is the
\* step that takes in the response to the request before
NextPageAfterResponse ==
  \A p \in Procs :
    (ListAllRun(cl[p]) /\ ListAllRun(cl'[p])
       /\ Len(cl'[p].reqLog) > Len(cl[p].reqLog)) =>
      /\ cl[p].pc = "await"
      /\ Len(cl'[p].reqLog) = Len(cl[p].reqLog) + 1
      /\ Len(cl'[p].respLog) = Len(cl[p].respLog) + 1
      /\ Len(cl'[p].respLog) = Len(cl[p].reqLog)

\* C17: within a listAllRecords run at most one page request is in flight at
\* any time, and the request for page k+1 is issued only in the step that
\* has received the response for page k.
ListAllPagesSequential == []OnePageInFlight /\ [][NextPageAfterResponse]_vars

\* two pages are in, the request for the third is out
ListAllThirdRequestWitness ==
  \E p \in Procs :
    /\ ListAllRun(cl[p]) /\ cl[p].pc = "await"
    /\ Len(cl[p].respLog) = 2 /\ Len(cl[p].reqLog) = 3


\* maxRecords is set and the first j pages hold that many records
CutoffReached(c, j) ==
  /\ Truthy(c.opts.maxRecords)
  /\ CountRecords(SubSeq(c.respLog, 1, j)) >= c.opts.maxRecords.n

\* the j-th response gives the loop cause to stop
StopsLoop(c, j) ==
  c.respLog[j].kind # "ok" \/ ~HasToken(c.respLog[j]) \/ CutoffReached(c, j)

\* a run waits for a page only if no response so far gave cause to stop, and
\* has ended only if its last response gave cause (or no request could be
\* made for want of a token); however many pages came before
ListAllStopsForCause ==
  \A p \in Procs :
    LET c == cl[p]
        k == Len(c.respLog)
    IN ListAllRun(c) =>
         /\ c.pc = "await" => \A j \in 1..k : ~StopsLoop(c, j)
         /\ (c.pc = "done" /\ k > 0) =>
              /\ StopsLoop(c, k)
              /\ \A j \in 1..(k - 1) : ~StopsLoop(c, j)
         /\ (c.pc = "done" /\ k = 0) => RejectedForAuth(c)

ListAllWaiting == cl[1].op = "listAllRecords" /\ cl[1].pc = "await"

ListAllEnded == cl[1].op = "listAllRecords" /\ cl[1].pc = "done"

MetaFetchRefused(c) ==
  ResolveCall(c) /\ c.pc = "done" /\ c.respLog # <<>> /\ c.respLog[1].kind = "http"

\* C19: when the metadata endpoint answers with a non-success status, the
\* resolution rejects with "Airtable Metadata error <status>: <body>" (the
\* status text standing in for a body that is empty or cannot be read), no
\* payload is used, and the cache entry is as the resolution found it.
MetaHttpFailureLeavesCache ==
  \A p \in Procs :
    LET c == cl[p] IN
    MetaFetchRefused(c) =>
      LET resp == c.respLog[1] IN
      /\ c.result.t = "err" /\ c.result.kind = "http"
      /\ c.result.msg =
           <<"Airtable Metadata error ", resp.status, ": ",
             IF resp.bodyOk /\ resp.body # "" THEN resp.body ELSE resp.statusText>>
      /\ c.meta = Undefined
      /\ cache = c.cacheAtStart

\* an entry too old to serve is found, the fetch gets a 500 with a body: the
\* old entry is still there
MetaHttpFailureStaleWitness ==
  \E p \in Procs :
    /\ MetaFetchRefused(cl[p])
    /\ cl[p].cacheAtStart.t = "entry"
    /\ cl[p].respLog[1].status = 500 /\ cl[p].respLog[1].body = "boom"
    /\ cl[p].result.msg = <<"Airtable Metadata error ", 500, ": ", "boom">>
    /\ cache = cl[p].cacheAtStart


(***************************************************************************)
(* Properties of the page loaders                                          *)
(***************************************************************************)
HasErrorMessage(pg) == pg.error.t = "string" /\ pg.error.s # <<>>

\* the load has ended and a call it awaited was rejected
FailedLoad(pg) == pg.pc = "settled" /\ pg.rejections > 0

\* what each page is left with by a failed load: Programs and MemberContent
\* a message and their built-in examples, Resources and ProgramDetail a
\* message (while mounted) and nothing loaded, Dashboard an empty list; and
\* no loading flag left up on a mounted page
DegradedState(pg) ==
  CASE pg.name = "Programs" ->
         /\ HasErrorMessage(pg) /\ pg.items = Null
         /\ pg.mounted => pg.loading = Bool(FALSE)
    [] pg.name = "MemberContent" -> HasErrorMessage(pg) /\ pg.items = Null
    [] pg.name = "Resources" ->
         /\ pg.items = Arr(<<>>)
         /\ pg.mounted => HasErrorMessage(pg) /\ pg.loading = Bool(FALSE)
    [] pg.name = "Dashboard" -> pg.items = Arr(<<>>)
    [] pg.name = "ProgramDetail" ->
         /\ pg.items = Null
         /\ pg.mounted => HasErrorMessage(pg) /\ pg.loading = Bool(FALSE)

RecoveredBySlug(pg) ==
  /\ pg.name = "ProgramDetail" /\ StartsWithRec(pg.id)
  /\ pg.stage = "listRecords" /\ pg.rejections = 1
  /\ pg.items.t = "object" /\ Slugify(RecordTitle(pg.items.m.id)) = pg.id
  /\ pg.error = Str(<<>>)
  /\ pg.loading = Bool(FALSE)

MissingOrMalformed(v) == v.t # "string" \/ v.s = <<>>

MapperCall(c) == c.pc = "done" /\ c.op \in {"mapResources", "mapDashboard", "mapProgramDetail"}

\* the mapped field is the record's string, or the default when the record
\* has no usable string there
DefaultsTo(mapped, raw, default) ==
  mapped = IF MissingOrMalformed(raw) THEN default ELSE raw

\* C21: the view mappers are total: mapping never throws, a field that is
\* absent, empty or not a string takes its documented default, and every
\* mapped Resources item has a type among Clinical, Form, Handout, Protocol
\* and General, General when className is missing
MappersTotal ==
  \A p \in Procs :
    MapperCall(cl[p]) =>
      /\ cl[p].result.t = "ok"
      /\ cl[p].op = "mapResources" =>
           \A i \in 1..Len(cl[p].opts.value) :
             LET r == cl[p].opts.value[i]
                 m == cl[p].result.v[i]
             IN /\ m.type \in ResourceTypes
                /\ Get(r.fields, "className") = Undefined => m.type = Str(<<"General">>)
                /\ DefaultsTo(m.name, Get(r.fields, "resourceName"), Str(<<"Untitled">>))
      /\ cl[p].op = "mapDashboard" =>
           LET r == cl[p].opts.value[1]
               m == cl[p].result.v[1]
           IN /\ DefaultsTo(m.name, Get(r.fields, "programName"), Str(<<"Untitled Program">>))
              /\ DefaultsTo(m.description, Get(r.fields, "programDescription"), Str(<<>>))
              /\ DefaultsTo(m.slug, Get(r.fields, "programSlug"), r.id)


(***************************************************************************)
(* Properties of the schema cache's freshness window                       *)
(***************************************************************************)
\* the resolution ended on the cached payload, with no request made
ServedFromCache(c) == c.pc = "done" /\ c.reqLog = <<>> /\ c.meta # Undefined

\* the resolution found an entry it could parse, 5 minutes old or older
FoundStale(c) ==
  /\ storage # "denied"
  /\ c.cacheAtStart.t = "entry"
  /\ c.startedAt - c.cacheAtStart.at >= META_CACHE_TTL_MS

CacheUsedIffFresh ==
  \A p \in Procs :
    LET c == cl[p] IN
    ResolveCall(c) =>
      /\ ServedFromCache(c) <=> FoundFresh(c)
      /\ FoundFresh(c) => c.meta = c.cacheAtStart.data
      /\ FoundStale(c) => Len(c.reqLog) = 1

\* a fetched payload goes into the cache stamped with the time of the write
StoredAtWriteTime ==
  \A p \in Procs :
    (/\ ResolveCall(cl[p]) /\ cl[p].pc = "await"
     /\ cl'[p].pc = "done" /\ cl'[p].meta # Undefined
     /\ storage = "ok") =>
      cache' = CacheEntry(now', cl'[p].meta)

NotFoundMessage == Str(<<"Program not found">>)

\* the step is one of a ProgramDetail load: its start, or its going on after
\* the call it awaited
DetailStarts == page.pc = "none" /\ page'.name = "ProgramDetail" /\ page'.pc = "await"

DetailGoesOn == page.name = "ProgramDetail" /\ page.pc = "await" /\ page'.pc # "await"

DetailCallsNext == page.name = "ProgramDetail" /\ page.pc = "await" /\ cl[1].pc = "done"
                   /\ cl'[1] # cl[1] /\ cl'[1].op # "none"

\* no record of a list has the id as the slug of its name
NoSlugMatch(records, id) == \A i \in 1..Len(records) : Slugify(RecordTitle(records[i])) # id

DetailLookupOrder ==
  /\ DetailStarts =>
       cl'[1].op = IF StartsWithRec(page'.id) THEN "getRecord" ELSE "listRecords"
  /\ DetailCallsNext =>
       /\ cl[1].op = "getRecord" /\ cl[1].result.t = "err"
       /\ cl'[1].op = "listRecords"
       /\ cl'[1].opts.pageSize = Num(100) /\ cl'[1].opts.offset = Undefined
  /\ (page.name = "ProgramDetail" /\ page.pc = "await" /\ cl[1].pc = "done"
        /\ cl[1].op = "getRecord" /\ cl[1].result.t = "ok") =>
       (cl'[1] = cl[1] \/ cl'[1] = IdleCall)
  /\ DetailGoesOn =>
       (page'.error = NotFoundMessage
          <=> /\ cl[1].op = "listRecords"
              /\ cl[1].result.t = "ok"
              /\ NoSlugMatch(cl[1].result.v.records, page.id))

ComponentState(pg) == <<pg.loading, pg.error, pg.items>>

\* load() goes on after the unmount of its component
UnmountedLoadStep ==
  /\ page.pc = "await" /\ ~page.mounted /\ cl[1].pc = "done"
  /\ page'.name = page.name /\ page' # page

\* loadProgram goes on after the id it was started for was replaced
ReplacedLoadStep ==
  /\ page.old.pc = "await" /\ cl[2].pc = "done"
  /\ page'.navs = page.navs /\ page'.old # page.old

StaleLoadUpdatesNothing ==
  (UnmountedLoadStep \/ ReplacedLoadStep) => ComponentState(page') = ComponentState(page)

\* C24: once the effect of a page loader was cleaned up (the component
\* unmounted, or the id of ProgramDetail changed and a new load started), that
\* load updates no state on any path; a stale ProgramDetail load never sets
\* 'Program not found' or an error over the state of the load for the
\* current id
StaleLoadsAreSilent == [][StaleLoadUpdatesNothing]_vars


(***************************************************************************)
(* Properties of the maxRecords cap                                        *)
(***************************************************************************)
\* a run of listAllRecords that was given a maxRecords and ended with a list
CappedRunDone(c) ==
  /\ ListAllRun(c) /\ c.pc = "done" /\ c.result.t = "ok"
  /\ c.opts.maxRecords.t = "number"

\* no request was made that the cap did not need: before each page but the
\* first, fewer than m records were held
NoRequestBeyond(c, m) ==
  /\ Len(c.reqLog) = Len(c.respLog)
  /\ \A j \in 1..(Len(c.respLog) - 1) : CountRecords(SubSeq(c.respLog, 1, j)) < m

\* C25: for every maxRecords >= 0 that is supplied, 0 included,
\* the list returned has at most maxRecords records and no more page requests
\* were issued than it took to reach that count
ListAllCapsAtAnyMaxRecords ==
  \A p \in Procs :
    LET c == cl[p]
        m == c.opts.maxRecords.n
    IN (CappedRunDone(c) /\ m >= 0) =>
         /\ Len(c.result.v) <= m
         /\ NoRequestBeyond(c, m)


(***************************************************************************)
(* Properties of the page size                                             *)
(***************************************************************************)
\* C26: every page request of a listAllRecords run carries a pageSize from 1
\* to 100, the same on every page of the run, whatever pageSize the caller
\* passed: none, 0, a negative one or one above 100
ListAllPageSizeClamped ==
  \A p \in Procs :
    LET c == cl[p] IN
    ListAllRun(c) =>
      \A k \in 1..Len(c.reqLog) :
        /\ c.reqLog[k].pageSize.t = "number"
        /\ c.reqLog[k].pageSize.n \in 1..100
        /\ c.reqLog[k].pageSize = c.reqLog[1].pageSize

\* a caller passed -5 and the run asked for three pages of size 1
ListAllNegativePageSizeWitness ==
  \E p \in Procs :
    /\ ListAllRun(cl[p])
    /\ cl[p].opts.pageSize = Num(-5)
    /\ Len(cl[p].reqLog) = 3
    /\ \A k \in 1..3 : cl[p].reqLog[k].pageSize = Num(1)


(***************************************************************************)
(* Properties of resolveFieldIds                                           *)
(***************************************************************************)
FieldIdsCall(c) == c.op = "resolveFieldIds" /\ c.pc # "idle"

\* what the payload the call worked on gives for key k
IdInPayload(c, k) ==
  ResolveFieldIdByNames(c.meta, TableNameMap[c.opts.tableKey],
                        FieldNameOf(c.opts.tableKey, k))

KeysOf(c) == {c.opts.fieldKeys[i] : i \in 1..Len(c.opts.fieldKeys)}

\* a call that ended with a map has every key in it, each with its field's
\* identifier; it rejects when a key's field is not in the payload, and a
\* rejection for a missing field is for the key the loop had come to
AllKeysOrNone(c) ==
  (c.pc = "done" /\ c.opts.fieldKeys # <<>>) =>
    /\ c.result.t = "ok" =>
         /\ DOMAIN c.result.v = KeysOf(c)
         /\ \A k \in KeysOf(c) : c.result.v[k] = IdInPayload(c, k).v
    /\ (c.meta # Undefined /\ \E k \in KeysOf(c) : IdInPayload(c, k).t = "err") =>
         c.result.t = "err"
    /\ (c.result.t = "err" /\ c.result.kind \in {"table-not-found", "field-not-found"}) =>
         c.result = IdInPayload(c, c.opts.fieldKeys[Len(c.out) + 1])

ByIdsNonEmpty(c) == ByIdsCall(c) /\ c.opts.recordIds.a # <<>>

\* the one request asks for 100 records from the start of the result, and
\* what the call returns is that request's outcome, token included
ByIdsSinglePage(c) ==
  /\ Len(c.reqLog) <= 1
  /\ \A k \in 1..Len(c.reqLog) :
       /\ c.reqLog[k].pageSize = Num(100)
       /\ c.reqLog[k].offset = Undefined
       /\ c.reqLog[k].filterByFormula = Str(BuildIdsFormula(c.opts.recordIds.a))
  /\ (c.pc = "await") = (Len(c.reqLog) = 1 /\ c.respLog = <<>>)
  /\ (c.pc = "done" /\ c.reqLog # <<>>) =>
       /\ Len(c.respLog) = 1
       /\ c.result = AirtableFetchOutcome(c.respLog[1])
       /\ c.result.t = "ok" =>
            /\ c.result.v.records = c.respLog[1].payload.records
            /\ c.result.v.offset = c.respLog[1].payload.offset
            /\ Len(c.result.v.records) <= MaxPageLen

\* C28 as claimed: listRecordsByIds with a non-empty list issues exactly one
\* HTTP request, of page size 100, follows no continuation token, and returns
\* the store's first page with the token it came with
ByIdsExactlyOneRequest ==
  \A p \in Procs :
    LET c == cl[p] IN
    ByIdsNonEmpty(c) => (Len(c.reqLog) = 1 /\ ByIdsSinglePage(c))

\* C28, amended: listRecordsByIds with a non-empty list issues exactly one
\* HTTP request when a token resolves, and none when no token resolves (the
\* call then rejects); the request has page size 100, no continuation token
\* is followed, and a call that returns returns the store's first page with
\* the token it came with
ByIdsOneRequestUnfollowed ==
  \A p \in Procs :
    LET c == cl[p] IN
    ByIdsNonEmpty(c) =>
      /\ ByIdsSinglePage(c)
      /\ IF c.reqLog = <<>> THEN RejectedForAuth(c) /\ c.tokenReads = 1
         ELSE Truthy(c.reqLog[1].auth)

\* a call for two records returned a full page and the token that came with it
ByIdsTokenReturnedWitness ==
  \E p \in Procs :
    /\ ByIdsNonEmpty(cl[p]) /\ cl[p].pc = "done"
    /\ Len(cl[p].opts.recordIds.a) = 2
    /\ Len(cl[p].reqLog) = 1
    /\ cl[p].result.t = "ok"
    /\ Len(cl[p].result.v.records) = MaxPageLen
    /\ Truthy(cl[p].result.v.offset)


(***************************************************************************)
(* The token is there, or not                                              *)
(***************************************************************************)
StatusCall(c) == c.op = "AirtableStatus" /\ c.pc = "done"

\* a call that went through airtableFetch or fetchMeta
FetchCall(c) == (c.op \in ClientOps \/ FetchedMeta(c)) /\ c.pc # "idle"

\* C29 as claimed: whatever localStorage holds or does and whatever is on
\* window, getAirtableToken returns a non-empty string, no call is rejected
\* for a missing token and the chip never reads 'Not Configured'
TokenNeverMissing ==
  \A p \in Procs :
    LET c == cl[p] IN
    /\ TokenCall(c) => (c.result.v.t = "string" /\ c.result.v.s # <<>>)
    /\ StatusCall(c) => c.result.v = Str(<<"Airtable: Configured">>)
    /\ FetchCall(c) => ~RejectedForAuth(c)

\* the one way to no token: no override that can be read and is more than
\* spaces, and a truthy value on window whose string form is empty
WindowStringEmpty == ~OverrideFound /\ WindowFound /\ JsString(winPat) = <<>>

\* C29, amended: getAirtableToken never returns null, and returns a
\* non-empty string except when no usable override can be read and the
\* value on window is truthy with an empty string form (an empty array);
\* exactly then it returns '', calls are rejected for a missing token before
\* any request, and the chip reads 'Not Configured'
TokenMissingOnlyFromWindow ==
  \A p \in Procs :
    LET c == cl[p] IN
    /\ TokenCall(c) =>
         /\ c.result.v.t = "string"
         /\ (c.result.v.s = <<>>) = WindowStringEmpty
    /\ StatusCall(c) =>
         c.result.v = (IF WindowStringEmpty THEN Str(<<"Airtable: Not Configured">>)
                       ELSE Str(<<"Airtable: Configured">>))
    /\ FetchCall(c) => (RejectedForAuth(c) = WindowStringEmpty)

\* an override of spaces only is passed over, nothing is on window, and the
\* embedded token is returned
TokenSpacesOverrideWitness ==
  \E p \in Procs :
    /\ TokenCall(cl[p])
    /\ storage = "ok" /\ lsPat = Str(<<" ", " ">>) /\ winPat = Null
    /\ cl[p].result = Ok(DEV_FALLBACK_PAT)


(***************************************************************************)
(* Loaders come to an end                                                  *)
(***************************************************************************)
FlaggedPages == {"Programs", "Resources", "ProgramDetail"}

\* a page with a loading flag whose load has started and that is on screen
LoadRunning == page.name \in FlaggedPages /\ page.pc = "await" /\ page.mounted

\* the page shows what was loaded, or says what went wrong
HoldsItemsOrError(pg) ==
  \/ pg.error.t = "string" /\ pg.error.s # <<>>
  \/ /\ pg.error = Str(<<>>)
     /\ IF pg.name = "ProgramDetail" THEN pg.items.t = "object"
        ELSE pg.items.t = "array"

LoadEndedWell ==
  /\ page.pc = "settled"
  /\ page.loading = Bool(FALSE)
  /\ HoldsItemsOrError(page)

\* the flag is up while the load runs, and a load that ended on a mounted
\* page left the flag down and items or a message behind
LoadFlagFollowsLoad ==
  /\ LoadRunning => page.loading = Bool(TRUE)
  /\ (page.name \in FlaggedPages /\ page.pc = "settled" /\ page.mounted
      /\ ~(page.name = "ProgramDetail" /\ page.id = <<>>)) => LoadEndedWell

====
